---- MODULE Spec2Model ----
(***************************************************************************)
(* Row synthesis of spandex (spandex/targets/synthesis.py).                *)
(*                                                                         *)
(* A table (pandas.DataFrame) is a sequence of rows; a row is a record     *)
(* with its index label (idx), the allocation column (alloc) and one other *)
(* column, the count column of the tests ("number").  A constraint         *)
(* (pandas.Series) is a sequence of [key, val] items in iteration order.   *)
(* Capacities may be fractional: a capacity is held as a whole number of   *)
(* 1/Denom units, so "cstr_val >= 1" reads "val >= Denom".                 *)
(***************************************************************************)
EXTENDS Integers, Sequences, FiniteSets, TLC

VARIABLES
    op,              \* the function the caller invokes
    pc,              \* position of the call: "call", "while", "after", "done",
                     \* "again" after a second call on the result
    df,              \* the table argument of the add / remove functions
    rows_to_add,     \* the table _allocate_rows modifies in place
    rows_given,      \* rows_to_add as the caller passed it (before the call)
    constraint,      \* the constraint series
    stuff,           \* the stuff flag
    arg,             \* num, amount or target of the call
    count,           \* the count argument: a column name or None
    chosen,          \* what np.random.choice returned during the call
    amount,          \* local of _add_rows_by_count
    sort_count,      \* local of _add_rows_by_count
    orig_sort_count, \* local of _add_rows_by_count
    to_add,          \* local of _add_rows_by_count
    result,          \* the returned table
    err,             \* the exception the call raised, or None
    geo_df,          \* the containers: (key, capacity) items in index order
    targets,         \* the targets table: one rule per row
    rule,            \* the number of rules synthesize_from_table has applied
    new_df,          \* the table threaded from one call to the next
    step_df,         \* the table the latest synthesize_one call was given
    col,             \* the col argument of scale_col_to_target
    target_arg,      \* the target argument of scale_col_to_target
    metric,          \* the metric argument of the scaling functions
    filters_arg,     \* the filters argument of scale_to_targets
    clip_low,        \* the clip_low argument of the scaling functions
    clip_high,       \* the clip_high argument of the scaling functions
    int_result,      \* the int_result argument of the scaling functions
    cache,           \* TableFrame.cache
    cached,          \* the column names that TableFrame._cached holds
    queried,         \* the columns the latest lookup read from the database
    key_arg,         \* the column names of the latest lookup (key)
    cache_from       \* where the value of TableFrame.cache comes from

synthVars == <<geo_df, targets, rule, new_df, step_df>>

scaleVars == <<col, target_arg, metric, filters_arg, clip_low, clip_high, int_result>>

frameVars == <<cache, cached, queried, key_arg, cache_from>>

vars == <<op, pc, df, rows_to_add, rows_given, constraint, stuff, arg, count,
          chosen, amount, sort_count, orig_sort_count, to_add, result, err,
          geo_df, targets, rule, new_df, step_df,
          col, target_arg, metric, filters_arg, clip_low, clip_high, int_result,
          cache, cached, queried, key_arg, cache_from>>

(***************************************************************************)
(* Bounds of the model.                                                    *)
(***************************************************************************)
MaxRows == 3      \* rows of an input table
MaxCount == 3     \* values of the count column are 1..MaxCount
MaxCap == 4       \* capacities are -1/Denom .. MaxCap/Denom
Denom == 2        \* capacities are multiples of 1/Denom
MaxAdd == 2       \* rows added by a row-count call
MaxAmount == 6    \* amount of a call by count
MaxSynthRows == 2 \* rows of the table given to synthesize_from_table
MaxTarget == 3    \* target values of a rule are 0..MaxTarget
Precision == 4    \* bits of the significand of a floating-point number
MaxLen == 3       \* rows of a column or table that is scaled
MaxVal == 3       \* values of a scaled column are -1, 0, 1 and MaxVal
MaxGoal == 3      \* targets of scaling are -1, 0, 1 and MaxGoal

None == "None"
NoTable == <<[idx |-> -1, alloc |-> None, number |-> 0]>>
Keys == {"a", "b", "c"}
CountColumn == "number"

\* The keys in sorted order.
KeyOrder == <<"a", "b", "c">>

\* constraint_scale_factor of the tests
ScaleFactor == 400

(***************************************************************************)
(* Tables.                                                                 *)
(***************************************************************************)
Row(i, a, c) == [idx |-> i, alloc |-> a, number |-> c]

\* df.index.values
IndexValues(t) == [k \in DOMAIN t |-> t[k].idx]

IndexSet(t) == {t[k].idx : k \in DOMAIN t}

\* df.index.max()
IndexMax(t) == CHOOSE m \in IndexSet(t) : \A i \in IndexSet(t) : i <= m

\* df[count].sum()
RECURSIVE ColumnSum(_)
ColumnSum(t) == IF t = <<>> THEN 0 ELSE Head(t).number + ColumnSum(Tail(t))

\* df.loc[labels]: the rows with these labels, in the order of the labels
Loc(t, labels) ==
    [k \in DOMAIN labels |-> t[CHOOSE p \in DOMAIN t : t[p].idx = labels[k]]]

RECURSIVE SortAscending(_)
SortAscending(S) ==
    IF S = {} THEN <<>>
    ELSE LET m == CHOOSE x \in S : \A y \in S : x <= y
         IN  <<m>> \o SortAscending(S \ {m})

\* index.difference(other): the labels not in other, unique and sorted
Difference(labels, other) ==
    SortAscending({labels[k] : k \in DOMAIN labels} \ {other[k] : k \in DOMAIN other})

ReindexOffByOne(rows, start) == [k \in DOMAIN rows |-> [rows[k] EXCEPT !.idx = start + k - 2]]

\* rows.index = range(start, start + len(rows))
Reindex(rows, start) == [k \in DOMAIN rows |-> [rows[k] EXCEPT !.idx = start + k - 1]]

(***************************************************************************)
(* _allocate_rows                                                          *)
(***************************************************************************)
\* rows_to_add.at[idx, alloc_id] = cstr_id
SetAt(rows, label, cstr_id) ==
    [k \in DOMAIN rows |->
        IF rows[k].idx = label THEN [rows[k] EXCEPT !.alloc = cstr_id] ELSE rows[k]]

HasRoomPositive(cstr_val) == cstr_val > 0

\* while cstr_val >= 1
HasRoom(cstr_val) == cstr_val >= Denom

\* The while loop on one container; i rows have been drawn from the iterator.
RECURSIVE FillContainer(_, _, _, _)
FillContainer(rows, i, cstr_id, cstr_val) ==
    IF HasRoom(cstr_val)
    THEN IF i >= Len(rows)
         THEN [rows |-> rows, i |-> i, rows_allocated |-> TRUE]
         ELSE FillContainer(SetAt(rows, rows[i + 1].idx, cstr_id), i + 1,
                            cstr_id, cstr_val - Denom)
    ELSE [rows |-> rows, i |-> i, rows_allocated |-> FALSE]

RECURSIVE FillContainersStop(_, _, _, _)
FillContainersStop(rows, i, cstr, j) ==
    IF j >= Len(cstr)
    THEN [rows |-> rows, i |-> i, rows_allocated |-> FALSE]
    ELSE LET r == FillContainer(rows, i, cstr[j + 1].key, cstr[j + 1].val)
         IN  IF r.rows_allocated \/ r.i = i THEN r
             ELSE FillContainersStop(r.rows, r.i, cstr, j + 1)

\* The for loop over the constraint; j containers have been visited.
RECURSIVE FillContainers(_, _, _, _)
FillContainers(rows, i, cstr, j) ==
    IF j >= Len(cstr)
    THEN [rows |-> rows, i |-> i, rows_allocated |-> FALSE]
    ELSE LET r == FillContainer(rows, i, cstr[j + 1].key, cstr[j + 1].val)
         IN  IF r.rows_allocated THEN r
             ELSE FillContainers(r.rows, r.i, cstr, j + 1)

OverflowChoiceAlwaysStuff(cstr, p, stf) ==
    IF p < Len(cstr) THEN [raised |-> FALSE, cstr_id |-> cstr[p + 1].key, p |-> p + 1]
    ELSE IF Len(cstr) = 0 THEN [raised |-> TRUE, cstr_id |-> None, p |-> p]
    ELSE [raised |-> FALSE, cstr_id |-> cstr[1].key, p |-> 1]

OverflowChoiceNoRestart(cstr, p, stf) ==
    IF stf
    THEN IF p < Len(cstr)
         THEN [raised |-> FALSE, cstr_id |-> cstr[p + 1].key, p |-> p + 1]
         ELSE IF Len(cstr) = 0
              THEN [raised |-> TRUE, cstr_id |-> None, p |-> p]
              ELSE [raised |-> FALSE, cstr_id |-> cstr[Len(cstr)].key, p |-> p]
    ELSE [raised |-> FALSE, cstr_id |-> None, p |-> p]

\* The container of one left-over row; p items have been drawn from cstr.
\* next(cstr) on an empty constraint raises StopIteration a second time.
OverflowChoice(cstr, p, stf) ==
    IF stf
    THEN IF p < Len(cstr)
         THEN [raised |-> FALSE, cstr_id |-> cstr[p + 1].key, p |-> p + 1]
         ELSE IF Len(cstr) = 0
              THEN [raised |-> TRUE, cstr_id |-> None, p |-> p]
              ELSE [raised |-> FALSE, cstr_id |-> cstr[1].key, p |-> 1]
    ELSE [raised |-> FALSE, cstr_id |-> None, p |-> p]

RECURSIVE OverflowSkipUnstuffed(_, _, _, _, _)
OverflowSkipUnstuffed(rows, i, cstr, p, stf) ==
    IF i >= Len(rows) THEN [rows |-> rows, raised |-> FALSE]
    ELSE LET c == OverflowChoice(cstr, p, stf)
         IN  IF c.raised THEN [rows |-> rows, raised |-> TRUE]
             ELSE OverflowSkipUnstuffed(
                      IF stf THEN SetAt(rows, rows[i + 1].idx, c.cstr_id) ELSE rows,
                      i + 1, cstr, c.p, stf)

\* The for loop over the rows left in the iterator.
RECURSIVE Overflow(_, _, _, _, _)
Overflow(rows, i, cstr, p, stf) ==
    IF i >= Len(rows) THEN [rows |-> rows, raised |-> FALSE]
    ELSE LET c == OverflowChoice(cstr, p, stf)
         IN  IF c.raised THEN [rows |-> rows, raised |-> TRUE]
             ELSE Overflow(SetAt(rows, rows[i + 1].idx, c.cstr_id), i + 1, cstr, c.p, stf)

\* _allocate_rows(rows_to_add, alloc_id, constraint, stuff): rows_to_add after
\* the call, and whether the call raised.
AllocateRows(rows, cstr, stf) ==
    LET f == FillContainers(rows, 0, cstr, 0)
    IN  IF f.rows_allocated THEN [rows |-> f.rows, raised |-> FALSE]
        ELSE Overflow(f.rows, f.i, cstr, 0, stf)

(***************************************************************************)
(* _remove_rows, _add_rows                                                 *)
(***************************************************************************)
\* The outcomes of np.random.choice(df.index.values, num): num labels of the
\* index, drawn with replacement (replace defaults to True).
Choices(t, num) == [1..num -> IndexSet(t)]

\* _remove_rows(df, num), to_remove being what np.random.choice returned
RemoveRows(t, num, to_remove) ==
    IF num = 0 THEN t
    ELSE Loc(t, Difference(IndexValues(t), to_remove))

AddRowsOnView(t, num, picks, cstr, stf) ==
    IF num = 0
    THEN [table |-> t, raised |-> FALSE, df |-> t, given |-> <<>>, rows |-> <<>>]
    ELSE LET rows == Reindex(Loc(t, picks), IndexMax(t) + 1)
             a == AllocateRows(rows, cstr, stf)
         IN  [table |-> t \o a.rows, raised |-> a.raised,
              df |-> AllocateRows(t, cstr, stf).rows, given |-> rows, rows |-> a.rows]

\* _add_rows(df, num, alloc_id, constraint, stuff), picks being what
\* np.random.choice returned.  df.loc[to_add] is a new table (given), which
\* the allocator modifies in place (rows); df is the caller's table after the
\* call; table is the returned concatenation.
AddRows(t, num, picks, cstr, stf) ==
    IF num = 0
    THEN [table |-> t, raised |-> FALSE, df |-> t, given |-> <<>>, rows |-> <<>>]
    ELSE LET rows == Reindex(Loc(t, picks), IndexMax(t) + 1)
             a == AllocateRows(rows, cstr, stf)
         IN  [table |-> t \o a.rows, raised |-> a.raised,
              df |-> t, given |-> rows, rows |-> a.rows]

(***************************************************************************)
(* _remove_rows_by_count, _add_rows_by_count                               *)
(***************************************************************************)
SortValuesAscending(t) ==
    {[i \in DOMAIN t |-> [k |-> t[p[i]].idx, v |-> t[p[i]].number]] :
        p \in {q \in Permutations(DOMAIN t) :
                  \A i, j \in DOMAIN t : i < j => t[q[i]].number <= t[q[j]].number}}

\* The outcomes of df[count].sort_values(ascending=False): the (label, value)
\* items by descending value, rows of equal value in any order (the default
\* sort is not stable).
SortValuesDescending(t) ==
    {[i \in DOMAIN t |-> [k |-> t[p[i]].idx, v |-> t[p[i]].number]] :
        p \in {q \in Permutations(DOMAIN t) :
                  \A i, j \in DOMAIN t : i < j => t[q[i]].number >= t[q[j]].number}}

\* sort_count[(sort_count <= amount) & (sort_count != 0)]
RemovableCounts(sc, amt) ==
    LET Fits(it) == it.v <= amt /\ it.v # 0 IN SelectSeq(sc, Fits)

\* The for loop of _remove_rows_by_count from item i on.
RECURSIVE RemoveWalk(_, _, _, _)
RemoveWalk(sc, i, amt, to_remove) ==
    IF i > Len(sc) THEN [picked |-> to_remove, amount |-> amt]
    ELSE LET take == sc[i].v <= amt
             amt2 == IF take THEN amt - sc[i].v ELSE amt
             rem2 == IF take THEN Append(to_remove, sc[i].k) ELSE to_remove
         IN  IF amt2 = 0 THEN [picked |-> rem2, amount |-> amt2]
             ELSE RemoveWalk(sc, i + 1, amt2, rem2)

\* _remove_rows_by_count(df, amount, count), sorted being the sorted column
RemoveRowsByCount(t, amt, sorted) ==
    IF amt = 0 THEN t
    ELSE LET w == RemoveWalk(RemovableCounts(sorted, amt), 1, amt, <<>>)
         IN  Loc(t, Difference(IndexValues(t), w.picked))

\* sort_count[sort_count != 0]
NonZeroCounts(sc) == LET NonZero(it) == it.v # 0 IN SelectSeq(sc, NonZero)

FittingCountsStrict(sc, amt) == LET Fits(it) == it.v < amt IN SelectSeq(sc, Fits)

\* sort_count[sort_count <= amount]
FittingCounts(sc, amt) == LET Fits(it) == it.v <= amt IN SelectSeq(sc, Fits)

\* orig_sort_count[(orig_sort_count < v) & (orig_sort_count <= amount)]
SmallerCounts(sc, v, amt) ==
    LET Smaller(it) == it.v < v /\ it.v <= amt IN SelectSeq(sc, Smaller)

\* orig_sort_count[k]
CountOf(sc, k) == sc[CHOOSE i \in DOMAIN sc : sc[i].k = k].v

RECURSIVE AddWalkUnchecked(_, _, _, _)
AddWalkUnchecked(sc, i, amt, picked) ==
    IF i > Len(sc) THEN [picked |-> picked, amount |-> amt]
    ELSE LET amt2 == amt - sc[i].v
             add2 == Append(picked, sc[i].k)
         IN  IF amt2 <= 0 THEN [picked |-> add2, amount |-> amt2]
             ELSE AddWalkUnchecked(sc, i + 1, amt2, add2)

\* The for loop of _add_rows_by_count from item i on.
RECURSIVE AddWalk(_, _, _, _)
AddWalk(sc, i, amt, picked) ==
    IF i > Len(sc) THEN [picked |-> picked, amount |-> amt]
    ELSE LET take == sc[i].v <= amt
             amt2 == IF take THEN amt - sc[i].v ELSE amt
             add2 == IF take THEN Append(picked, sc[i].k) ELSE picked
         IN  IF amt2 = 0 THEN [picked |-> add2, amount |-> amt2]
             ELSE AddWalk(sc, i + 1, amt2, add2)

WhileIterationOverRestore(amt, sc, orig, picked) ==
    LET fit == FittingCounts(sc, amt)
    IN  IF Len(fit) = 0
        THEN IF picked = <<>>
             THEN [goto |-> "IndexError", amount |-> amt, sort_count |-> fit,
                   to_add |-> picked]
             ELSE LET k == picked[Len(picked)]
                      popped == SubSeq(picked, 1, Len(picked) - 1)
                      v == CountOf(orig, k)
                      amt1 == amt + v + 1
                      smaller == SmallerCounts(orig, v, amt1)
                  IN  IF Len(smaller) = 0
                      THEN [goto |-> "after", amount |-> amt1, sort_count |-> smaller,
                            to_add |-> popped]
                      ELSE LET w == AddWalk(smaller, 1, amt1, popped)
                           IN  [goto |-> "while", amount |-> w.amount,
                                sort_count |-> smaller, to_add |-> w.picked]
        ELSE LET w == AddWalk(fit, 1, amt, picked)
             IN  [goto |-> "while", amount |-> w.amount, sort_count |-> fit,
                  to_add |-> w.picked]

\* One iteration of the while loop of _add_rows_by_count: the locals after it
\* and where control goes ("while", "after" on break, "IndexError" when
\* to_add.pop() finds the list empty).
WhileIteration(amt, sc, orig, picked) ==
    LET fit == FittingCounts(sc, amt)
    IN  IF Len(fit) = 0
        THEN IF picked = <<>>
             THEN [goto |-> "IndexError", amount |-> amt, sort_count |-> fit,
                   to_add |-> picked]
             ELSE LET k == picked[Len(picked)]
                      popped == SubSeq(picked, 1, Len(picked) - 1)
                      v == CountOf(orig, k)
                      amt1 == amt + v
                      smaller == SmallerCounts(orig, v, amt1)
                  IN  IF Len(smaller) = 0
                      THEN [goto |-> "after", amount |-> amt1, sort_count |-> smaller,
                            to_add |-> popped]
                      ELSE LET w == AddWalk(smaller, 1, amt1, popped)
                           IN  [goto |-> "while", amount |-> w.amount,
                                sort_count |-> smaller, to_add |-> w.picked]
        ELSE LET w == AddWalk(fit, 1, amt, picked)
             IN  [goto |-> "while", amount |-> w.amount, sort_count |-> fit,
                  to_add |-> w.picked]

\* The end of _add_rows_by_count: the rows to add are copied, re-indexed,
\* allocated and appended.
AppendPicked(t, picked, cstr, stf) ==
    LET rows == Reindex(Loc(t, picked), IndexMax(t) + 1)
        a == AllocateRows(rows, cstr, stf)
    IN  [table |-> t \o a.rows, raised |-> a.raised,
         df |-> t, given |-> rows, rows |-> a.rows]

(***************************************************************************)
(* The add / remove functions as a whole call: the set of outcomes         *)
(* [table, err] a call can have, over what np.random.choice returns and    *)
(* over the order sort_values gives equal values.                          *)
(***************************************************************************)
Ok(t) == [table |-> t, err |-> None]

Failed(e) == [table |-> NoTable, err |-> e]

\* _remove_rows(df, num)
RemoveRowsOutcomes(t, num) ==
    IF num = 0 THEN {Ok(t)}
    ELSE IF t = <<>> THEN {Failed("ValueError")}
    ELSE {Ok(RemoveRows(t, num, to_remove)) : to_remove \in Choices(t, num)}

\* _add_rows(df, num, alloc_id, constraint, stuff)
AddRowsOutcomes(t, num, cstr, stf) ==
    IF num = 0 THEN {Ok(t)}
    ELSE IF t = <<>> THEN {Failed("ValueError")}
    ELSE {LET r == AddRows(t, num, picks, cstr, stf)
          IN  IF r.raised THEN Failed("StopIteration") ELSE Ok(r.table) :
             picks \in Choices(t, num)}

\* _remove_rows_by_count(df, amount, count)
RemoveRowsByCountOutcomes(t, amt) ==
    {Ok(RemoveRowsByCount(t, amt, sorted)) : sorted \in SortValuesDescending(t)}

\* The while loop of _add_rows_by_count, run until it is left.
RECURSIVE AddByCountLoop(_, _, _, _)
AddByCountLoop(amt, sc, orig, picked) ==
    IF amt < 1
    THEN [goto |-> "after", amount |-> amt, sort_count |-> sc, to_add |-> picked]
    ELSE LET w == WhileIteration(amt, sc, orig, picked)
         IN  IF w.goto = "while"
             THEN AddByCountLoop(w.amount, w.sort_count, orig, w.to_add)
             ELSE w

\* _add_rows_by_count(df, amount, count, alloc_id, constraint, stuff)
AddRowsByCountOutcomes(t, amt, cstr, stf) ==
    IF amt = 0 THEN {Ok(t)}
    ELSE {LET sc == NonZeroCounts(sorted)
              l == AddByCountLoop(amt, sc, sc, <<>>)
              r == AppendPicked(t, l.to_add, cstr, stf)
          IN  IF l.goto = "IndexError" THEN Failed("IndexError")
              ELSE IF r.raised THEN Failed("StopIteration")
              ELSE Ok(r.table) :
             sorted \in SortValuesDescending(t)}

AddOrRemoveRowsByLen(t, target, cstr, cnt, stf) ==
    LET current == Len(t)
    IN  IF cnt = None
        THEN IF current < target THEN AddRowsOutcomes(t, target - current, cstr, stf)
             ELSE IF current > target THEN RemoveRowsOutcomes(t, current - target)
             ELSE {Ok(t)}
        ELSE IF current < target
             THEN AddRowsByCountOutcomes(t, target - current, cstr, stf)
             ELSE IF current > target
             THEN RemoveRowsByCountOutcomes(t, current - target)
             ELSE {Ok(t)}

\* _add_or_remove_rows(df, target, alloc_id, constraint, count, stuff)
AddOrRemoveRows(t, target, cstr, cnt, stf) ==
    IF cnt = None
    THEN LET current == Len(t)
         IN  IF current < target THEN AddRowsOutcomes(t, target - current, cstr, stf)
             ELSE IF current > target THEN RemoveRowsOutcomes(t, current - target)
             ELSE {Ok(t)}
    ELSE LET current == ColumnSum(t)
         IN  IF current < target
             THEN AddRowsByCountOutcomes(t, target - current, cstr, stf)
             ELSE IF current > target
             THEN RemoveRowsByCountOutcomes(t, current - target)
             ELSE {Ok(t)}

(***************************************************************************)
(* synthesize_one                                                          *)
(*                                                                         *)
(* geo_df is a sequence of containers [key, units, scaled] in index order, *)
(* the two capacity columns of the tests.  A rule (a row of the targets    *)
(* table) is a record [target_value, capacity_expr, filters, count,        *)
(* stuff]; geo_id_col is the allocation column and capacity_col the units  *)
(* column.  filters is a sequence of conditions, empty when the rule has   *)
(* none: [col, below] is "number < below", [col, equals] "alloc == equals".*)
(***************************************************************************)
ValueCountsPresence(t) == [key \in {t[k].alloc : k \in DOMAIN t} \ {None} |-> 1]

ValueCountsKeepNull(t) ==
    [key \in {t[k].alloc : k \in DOMAIN t} |->
        Cardinality({k \in DOMAIN t : t[k].alloc = key})]

\* df[alloc_id].value_counts(): the number of rows per key; null is dropped
ValueCounts(t) ==
    [key \in {t[k].alloc : k \in DOMAIN t} \ {None} |->
        Cardinality({k \in DOMAIN t : t[k].alloc = key})]

\* geo_df.eval(constraint_expr) if constraint_expr else geo_df[geo_col]
ContainerSize(g, constraint_expr) ==
    [i \in DOMAIN g |->
        [key |-> g[i].key,
         val |-> IF constraint_expr # None THEN g[i].scaled \div ScaleFactor
                 ELSE g[i].units]]

IsInAny(occupancy, container_size) ==
    \/ DOMAIN occupancy = {}
    \/ \E i \in DOMAIN container_size : container_size[i].key \in DOMAIN occupancy

\* occupancy.index.isin(container_size.index).all()
IsIn(occupancy, container_size) ==
    DOMAIN occupancy \subseteq {container_size[i].key : i \in DOMAIN container_size}

SubNoFill(container_size, occupancy) ==
    [i \in DOMAIN container_size |->
        [key |-> container_size[i].key,
         val |-> IF container_size[i].key \in DOMAIN occupancy
                 THEN container_size[i].val - Denom * occupancy[container_size[i].key]
                 ELSE -1]]

\* container_size.sub(occupancy, fill_value=0), the keys of occupancy being
\* keys of container_size
Sub(container_size, occupancy) ==
    [i \in DOMAIN container_size |->
        [key |-> container_size[i].key,
         val |-> IF container_size[i].key \in DOMAIN occupancy
                 THEN container_size[i].val - Denom * occupancy[container_size[i].key]
                 ELSE container_size[i].val]]

\* The series sorted by key.
SortIndex(series) ==
    LET Present(key) == \E i \in DOMAIN series : series[i].key = key
        ks == SelectSeq(KeyOrder, Present)
    IN  [n \in DOMAIN ks |-> series[CHOOSE i \in DOMAIN series : series[i].key = ks[n]]]

\* The alignment of the two indexes in Series.sub keeps the order of
\* container_size when the indexes are equal and sorts the keys otherwise.
Aligned(series) == {series, SortIndex(series)}

Holds(row, cond) ==
    IF cond.col = CountColumn THEN row.number < cond.below ELSE row.alloc = cond.equals

\* apply_filter_query(df, filters)
ApplyFilterQuery(t, filters) ==
    IF filters = <<>> THEN t
    ELSE LET Query(row) == \A n \in DOMAIN filters : Holds(row, filters[n])
         IN  SelectSeq(t, Query)

ReconcileFromSubsetMax(t, synth_df, new_synth_df) ==
    IF Len(new_synth_df) > Len(synth_df)
    THEN LET new_indexes == Difference(IndexValues(new_synth_df), IndexValues(synth_df))
         IN  t \o Loc(new_synth_df, new_indexes)
    ELSE IF Len(new_synth_df) < Len(synth_df)
    THEN LET removed == Difference(IndexValues(synth_df), IndexValues(new_synth_df))
         IN  Loc(t, Difference(IndexValues(t), removed))
    ELSE t

\* The end of synthesize_one: the change of the subset is carried to df.
Reconcile(t, synth_df, new_synth_df) ==
    IF Len(new_synth_df) > Len(synth_df)
    THEN LET new_indexes == Difference(IndexValues(new_synth_df), IndexValues(synth_df))
             new_rows == Loc(new_synth_df, new_indexes)
         IN  t \o Reindex(new_rows, IndexMax(t) + 1)
    ELSE IF Len(new_synth_df) < Len(synth_df)
    THEN LET removed == Difference(IndexValues(synth_df), IndexValues(new_synth_df))
         IN  Loc(t, Difference(IndexValues(t), removed))
    ELSE t

NothingToSynthesizeAnyTarget(synth_df, target) == Len(synth_df) = 0

\* len(synth_df) == 0 and target != 0
NothingToSynthesize(synth_df, target) == Len(synth_df) = 0 /\ target # 0

NonExistentContainers == "RuntimeError: Rows are assigned to non-existant containers"

NoRowsToSynthesize == "RuntimeError: No rows to synthesize or remove"

\* synthesize_one(df, target, alloc_id, geo_df, geo_col, constraint_expr,
\* filters, count, stuff): the outcomes [table, err, constraints] of a call.
SynthesizeOne(t, r, g) ==
    LET occupancy == ValueCounts(t)
        container_size == ContainerSize(g, r.capacity_expr)
        synth_df == ApplyFilterQuery(t, r.filters)
    IN  IF ~IsIn(occupancy, container_size)
        THEN {[table |-> NoTable, err |-> NonExistentContainers, constraints |-> <<>>]}
        ELSE UNION {
                 IF NothingToSynthesize(synth_df, r.target_value)
                 THEN {[table |-> NoTable, err |-> NoRowsToSynthesize,
                        constraints |-> constraints]}
                 ELSE {[table |-> IF o.err = None
                                  THEN Reconcile(t, synth_df, o.table) ELSE NoTable,
                        err |-> o.err,
                        constraints |-> constraints] :
                          o \in AddOrRemoveRows(synth_df, r.target_value, constraints,
                                                r.count, r.stuff)} :
                 constraints \in Aligned(Sub(container_size, occupancy))}

(***************************************************************************)
(* Inputs of the calls.                                                    *)
(***************************************************************************)
\* Index layouts: the default range index 0..n-1, and labels that are
\* neither sorted nor contiguous.
IndexLayouts(n) == {[k \in 1..n |-> k - 1], [k \in 1..n |-> 2 * (n - k) + 1]}

TablesOf(lens, allocs, numbers) ==
    UNION {{[k \in 1..n |-> Row(lay[k], a[k], c[k])] :
               lay \in IndexLayouts(n), a \in [1..n -> allocs], c \in [1..n -> numbers]} :
           n \in lens}

CapValues == (-1)..MaxCap

KeySeqs(n) == {ks \in [1..n -> Keys] : \A i, j \in 1..n : i # j => ks[i] # ks[j]}

\* Constraint series: distinct keys in any order, any capacities.
Constraints ==
    UNION {{[k \in 1..n |-> [key |-> ks[k], val |-> cs[k]]] :
               ks \in KeySeqs(n), cs \in [1..n -> CapValues]} :
           n \in 0..Cardinality(Keys)}

\* Tables handed to _allocate_rows: the allocation column holds a key of the
\* constraint ("a") or a stale value that is no container ("x").
AllocTables == TablesOf(0..(MaxRows + 1), {"a", "x"}, {1})

\* No scaling call is under way.
NoScaling ==
    /\ col = <<>>
    /\ target_arg = 0
    /\ metric = None
    /\ filters_arg = <<>>
    /\ clip_low = 0
    /\ clip_high = 0
    /\ int_result = FALSE

\* No TableFrame has been constructed.
NoTableFrame ==
    /\ cache = FALSE
    /\ cached = {}
    /\ queried = {}
    /\ key_arg = {}
    /\ cache_from = None

\* No synthesize_from_table call is under way, nor any of the above.
NoSynthesis ==
    /\ geo_df = <<>>
    /\ targets = <<>>
    /\ rule = 0
    /\ new_df = NoTable
    /\ step_df = NoTable
    /\ NoScaling
    /\ NoTableFrame

(***************************************************************************)
(* The caller of _allocate_rows.                                           *)
(***************************************************************************)
InitAlloc ==
    /\ op = "allocate_rows"
    /\ pc = "call"
    /\ rows_to_add \in AllocTables
    /\ rows_given = rows_to_add
    /\ constraint \in Constraints
    /\ stuff \in BOOLEAN
    /\ df = <<>>
    /\ arg = 0
    /\ count = None
    /\ chosen = <<>>
    /\ amount = 0
    /\ sort_count = <<>>
    /\ orig_sort_count = <<>>
    /\ to_add = <<>>
    /\ result = NoTable
    /\ err = None
    /\ NoSynthesis

\* _allocate_rows(rows_to_add, alloc_id, constraint, stuff)
AllocateRowsCall ==
    /\ op = "allocate_rows"
    /\ pc = "call"
    /\ LET r == AllocateRows(rows_to_add, constraint, stuff)
       IN  /\ rows_to_add' = r.rows
           /\ err' = IF r.raised THEN "StopIteration" ELSE None
    /\ pc' = "done"
    /\ UNCHANGED <<op, df, rows_given, constraint, stuff, arg, count, chosen,
                   amount, sort_count, orig_sort_count, to_add, result>>
    /\ UNCHANGED <<synthVars, scaleVars, frameVars>>

NextAlloc == AllocateRowsCall

SpecAlloc == InitAlloc /\ [][NextAlloc]_vars

(***************************************************************************)
(* The caller of the add / remove functions.                               *)
(***************************************************************************)
SynTables == TablesOf(0..MaxRows, {"a"}, 1..MaxCount)

\* The constraint of the tests (a: 0, b: 1, c: 3), and an empty one.
SynConstraints ==
    {<<>>,
     <<[key |-> "a", val |-> 0], [key |-> "b", val |-> Denom],
       [key |-> "c", val |-> 3 * Denom]>>}

SynOps == {"remove_rows", "add_rows", "remove_rows_by_count", "add_rows_by_count",
           "add_or_remove_rows"}

ArgRange(o, t, cnt) ==
    CASE o = "remove_rows" -> 0..MaxRows
      [] o = "add_rows" -> 0..MaxAdd
      [] o \in {"remove_rows_by_count", "add_rows_by_count"} -> 0..MaxAmount
      [] o = "add_or_remove_rows" ->
            IF cnt = None THEN 0..(Len(t) + MaxAdd) ELSE 0..(ColumnSum(t) + MaxAmount)

InitSyn ==
    /\ op \in SynOps
    /\ pc = "call"
    /\ df \in SynTables
    /\ rows_to_add = <<>>
    /\ rows_given = <<>>
    /\ IF op \in {"remove_rows", "remove_rows_by_count"}
       THEN constraint = <<>> /\ stuff = FALSE
       ELSE constraint \in SynConstraints /\ stuff \in BOOLEAN
    /\ count \in (CASE op = "add_or_remove_rows" -> {None, CountColumn}
                    [] op \in {"remove_rows_by_count", "add_rows_by_count"} -> {CountColumn}
                    [] OTHER -> {None})
    /\ arg \in ArgRange(op, df, count)
    /\ chosen = <<>>
    /\ amount = 0
    /\ sort_count = <<>>
    /\ orig_sort_count = <<>>
    /\ to_add = <<>>
    /\ result = NoTable
    /\ err = None
    /\ NoSynthesis

Return(t) == result' = t /\ err' = None /\ pc' = "done"

Raise(e) == result' = NoTable /\ err' = e /\ pc' = "done"

\* return df.copy()
ReturnCopy ==
    /\ Return(df)
    /\ UNCHANGED <<chosen, amount, sort_count, orig_sort_count, to_add>>
    /\ UNCHANGED <<df, rows_to_add, rows_given>>

\* The body of _remove_rows; np.random.choice raises ValueError on an empty df.
RemoveRowsBody(num) ==
    /\ UNCHANGED <<amount, sort_count, orig_sort_count, to_add>>
    /\ UNCHANGED <<df, rows_to_add, rows_given>>
    /\ IF num = 0 THEN chosen' = <<>> /\ Return(df)
       ELSE IF df = <<>> THEN chosen' = <<>> /\ Raise("ValueError")
       ELSE \E to_remove \in Choices(df, num) :
                /\ chosen' = to_remove
                /\ Return(RemoveRows(df, num, to_remove))

\* The body of _add_rows.
AddRowsBody(num) ==
    /\ UNCHANGED <<amount, sort_count, orig_sort_count, to_add>>
    /\ IF num = 0
       THEN chosen' = <<>> /\ Return(df) /\ UNCHANGED <<df, rows_to_add, rows_given>>
       ELSE IF df = <<>>
       THEN chosen' = <<>> /\ Raise("ValueError")
            /\ UNCHANGED <<df, rows_to_add, rows_given>>
       ELSE \E picks \in Choices(df, num) :
                LET r == AddRows(df, num, picks, constraint, stuff)
                IN  /\ chosen' = picks
                    /\ df' = r.df
                    /\ rows_given' = r.given
                    /\ rows_to_add' = r.rows
                    /\ IF r.raised THEN Raise("StopIteration") ELSE Return(r.table)

\* The body of _remove_rows_by_count.
RemoveRowsByCountBody(amt) ==
    /\ UNCHANGED <<chosen, amount, sort_count, orig_sort_count, to_add>>
    /\ UNCHANGED <<df, rows_to_add, rows_given>>
    /\ \E sorted \in SortValuesDescending(df) :
           Return(RemoveRowsByCount(df, amt, sorted))

\* _add_rows_by_count up to its while loop.
AddRowsByCountBody(amt) ==
    IF amt = 0 THEN ReturnCopy
    ELSE \E sorted \in SortValuesDescending(df) :
             /\ sort_count' = NonZeroCounts(sorted)
             /\ orig_sort_count' = NonZeroCounts(sorted)
             /\ to_add' = <<>>
             /\ amount' = amt
             /\ pc' = "while"
             /\ UNCHANGED <<chosen, result, err>>
             /\ UNCHANGED <<df, rows_to_add, rows_given>>

SynFrame ==
    /\ UNCHANGED <<op, constraint, stuff, arg, count>>
    /\ UNCHANGED <<synthVars, scaleVars, frameVars>>

\* _remove_rows(df, num)
RemoveRowsCall ==
    /\ op = "remove_rows" /\ pc = "call"
    /\ RemoveRowsBody(arg)
    /\ SynFrame

\* _add_rows(df, num, alloc_id, constraint, stuff)
AddRowsCall ==
    /\ op = "add_rows" /\ pc = "call"
    /\ AddRowsBody(arg)
    /\ SynFrame

\* _remove_rows_by_count(df, amount, count)
RemoveRowsByCountCall ==
    /\ op = "remove_rows_by_count" /\ pc = "call"
    /\ RemoveRowsByCountBody(arg)
    /\ SynFrame

\* _add_rows_by_count(df, amount, count, alloc_id, constraint, stuff)
AddRowsByCountCall ==
    /\ op = "add_rows_by_count" /\ pc = "call"
    /\ AddRowsByCountBody(arg)
    /\ SynFrame

\* One iteration of "while amount >= 1" in _add_rows_by_count.
AddRowsByCountWhile ==
    /\ pc = "while" /\ amount >= 1
    /\ LET w == WhileIteration(amount, sort_count, orig_sort_count, to_add)
       IN  /\ amount' = w.amount
           /\ sort_count' = w.sort_count
           /\ to_add' = w.to_add
           /\ IF w.goto = "IndexError" THEN Raise("IndexError")
              ELSE pc' = w.goto /\ UNCHANGED <<result, err>>
    /\ UNCHANGED <<chosen, orig_sort_count>>
    /\ UNCHANGED <<df, rows_to_add, rows_given>>
    /\ SynFrame

\* The loop of _add_rows_by_count is left: the picked rows are appended.
AddRowsByCountReturn ==
    /\ (pc = "while" /\ amount < 1) \/ pc = "after"
    /\ LET r == AppendPicked(df, to_add, constraint, stuff)
       IN  /\ df' = r.df
           /\ rows_given' = r.given
           /\ rows_to_add' = r.rows
           /\ IF r.raised THEN Raise("StopIteration") ELSE Return(r.table)
    /\ UNCHANGED <<chosen, amount, sort_count, orig_sort_count, to_add>>
    /\ SynFrame

AddOrRemoveRowsCallCountsRows ==
    /\ op = "add_or_remove_rows" /\ pc = "call"
    /\ IF count = None
       THEN LET current == Len(df)
            IN  IF current < arg THEN AddRowsBody(arg - current)
                ELSE IF current > arg THEN RemoveRowsBody(current - arg)
                ELSE ReturnCopy
       ELSE LET current == Len(df)
            IN  IF current < arg THEN AddRowsByCountBody(arg - current)
                ELSE IF current > arg THEN RemoveRowsByCountBody(current - arg)
                ELSE ReturnCopy
    /\ SynFrame

\* _add_or_remove_rows(df, target, alloc_id, constraint, count, stuff)
AddOrRemoveRowsCall ==
    /\ op = "add_or_remove_rows" /\ pc = "call"
    /\ IF count = None
       THEN LET current == Len(df)
            IN  IF current < arg THEN AddRowsBody(arg - current)
                ELSE IF current > arg THEN RemoveRowsBody(current - arg)
                ELSE ReturnCopy
       ELSE LET current == ColumnSum(df)
            IN  IF current < arg THEN AddRowsByCountBody(arg - current)
                ELSE IF current > arg THEN RemoveRowsByCountBody(current - arg)
                ELSE ReturnCopy
    /\ SynFrame

\* The largest table a second call is made on.
MaxAgainRows == MaxRows + 1

\* The caller applies _add_or_remove_rows a second time, to the table the
\* first call returned, with the count sum of the first table as target
\* (the first call had a larger target).
AddOrRemoveRowsAgain ==
    /\ op = "add_or_remove_rows" /\ pc = "done" /\ err = None
    /\ count # None /\ arg > ColumnSum(df)
    /\ Len(result) <= MaxAgainRows
    /\ \E o \in AddOrRemoveRows(result, ColumnSum(df), constraint, count, stuff) :
           /\ result' = o.table
           /\ err' = o.err
    /\ new_df' = result
    /\ pc' = "again"
    /\ UNCHANGED <<op, df, rows_to_add, rows_given, constraint, stuff, arg, count,
                   chosen, amount, sort_count, orig_sort_count, to_add,
                   geo_df, targets, rule, step_df, scaleVars, frameVars>>

NextSyn ==
    \/ AddOrRemoveRowsAgain
    \/ RemoveRowsCall
    \/ AddRowsCall
    \/ RemoveRowsByCountCall
    \/ AddRowsByCountCall
    \/ AddRowsByCountWhile
    \/ AddRowsByCountReturn
    \/ AddOrRemoveRowsCall

SpecSyn == InitSyn /\ [][NextSyn]_vars

\* The calls of _add_rows_by_count alone.  The interpreter runs the loop:
\* an iteration that can be executed is executed.
InitLoop == InitSyn /\ op = "add_rows_by_count"

NextLoop ==
    \/ AddRowsByCountCall
    \/ AddRowsByCountWhile
    \/ AddRowsByCountReturn

SpecLoop == InitLoop /\ [][NextLoop]_vars /\ WF_vars(AddRowsByCountWhile)

(***************************************************************************)
(* Properties of _allocate_rows (checked under SpecAlloc).                 *)
(***************************************************************************)
AllocReturned == op = "allocate_rows" /\ pc = "done" /\ err = None

\* Rows of the table assigned to a container.
AssignedTo(rows, key) == Cardinality({k \in DOMAIN rows : rows[k].alloc = key})

\* floor(max(capacity, 0))
WholeUnits(val) == IF val > 0 THEN val \div Denom ELSE 0

\* The running sum of whole units over the first j containers.
RECURSIVE CumUnits(_, _)
CumUnits(cstr, j) == IF j = 0 THEN 0 ELSE CumUnits(cstr, j - 1) + WholeUnits(cstr[j].val)

TotalUnits(cstr) == CumUnits(cstr, Len(cstr))

KeyPos(cstr, key) == CHOOSE j \in DOMAIN cstr : cstr[j].key = key

ConstraintKeys(cstr) == {cstr[j].key : j \in DOMAIN cstr}

\* C1: with stuff=False a container of capacity >= 1 receives at most
\* floor(capacity) rows, and a container of capacity < 1 (zero, negative or a
\* fraction below 1) receives none.
C1_CapacityRespected ==
    (AllocReturned /\ ~stuff) =>
        \A j \in DOMAIN constraint :
            LET n == AssignedTo(rows_to_add, constraint[j].key)
            IN  IF constraint[j].val >= Denom
                THEN n <= constraint[j].val \div Denom
                ELSE n = 0

\* A container of fractional capacity above 1 is filled to its floor, a
\* container of positive capacity below 1 stays empty, and a row is left over.
C1_Witness ==
    /\ AllocReturned /\ ~stuff
    /\ \E j \in DOMAIN constraint :
          /\ constraint[j].val > Denom
          /\ constraint[j].val % Denom # 0
          /\ AssignedTo(rows_to_add, constraint[j].key) = constraint[j].val \div Denom
    /\ \E j \in DOMAIN constraint :
          /\ constraint[j].val > 0
          /\ constraint[j].val < Denom
          /\ AssignedTo(rows_to_add, constraint[j].key) = 0
    /\ \E k \in DOMAIN rows_to_add : rows_to_add[k].alloc = None

\* C2: greedy first fit in constraint order: while capacity remains, row i
\* (0-based) receives the key of the first container whose running sum of
\* floor(max(capacity, 0)) exceeds i, so the containers of successive rows
\* never move backwards in constraint order.
C2_FirstFit ==
    AllocReturned =>
        /\ \A i \in DOMAIN rows_to_add :
              (i - 1 < TotalUnits(constraint)) =>
                  LET j == CHOOSE c \in DOMAIN constraint :
                               /\ CumUnits(constraint, c) > i - 1
                               /\ \A b \in 1..(c - 1) : CumUnits(constraint, b) <= i - 1
                  IN  rows_to_add[i].alloc = constraint[j].key
        /\ \A i, k \in DOMAIN rows_to_add :
              (i < k /\ k - 1 < TotalUnits(constraint)) =>
                  KeyPos(constraint, rows_to_add[i].alloc)
                      <= KeyPos(constraint, rows_to_add[k].alloc)

\* Three rows placed in two containers that follow a container without room.
C2_Witness ==
    /\ AllocReturned
    /\ Len(constraint) = 3
    /\ constraint[1].val < Denom
    /\ Len(rows_to_add) >= 3
    /\ rows_to_add[1].alloc = constraint[2].key
    /\ rows_to_add[2].alloc = constraint[3].key
    /\ rows_to_add[3].alloc = constraint[3].key

\* C3: with stuff=False and n rows against a total whole-unit capacity C < n,
\* exactly the first C rows receive a container key and exactly the last n - C
\* rows receive a null container.
C3_ExcessUnplaced ==
    (AllocReturned /\ ~stuff /\ TotalUnits(constraint) < Len(rows_to_add)) =>
        \A i \in DOMAIN rows_to_add :
            IF i <= TotalUnits(constraint)
            THEN rows_to_add[i].alloc \in ConstraintKeys(constraint)
            ELSE rows_to_add[i].alloc = None

\* Some rows are placed and at least two rows are left without a container.
C3_Witness ==
    /\ AllocReturned /\ ~stuff
    /\ TotalUnits(constraint) >= 1
    /\ Len(rows_to_add) >= TotalUnits(constraint) + 2
    /\ rows_to_add[Len(rows_to_add)].alloc = None
    /\ rows_given[Len(rows_to_add)].alloc # None

\* C4: with stuff=True and m >= 1 containers, the j-th row (0-based) left over
\* after all capacity is used receives the key at position j mod m of the
\* constraint, whatever the capacities.
C4_RoundRobin ==
    (AllocReturned /\ stuff /\ Len(constraint) >= 1) =>
        \A i \in DOMAIN rows_to_add :
            (i > TotalUnits(constraint)) =>
                rows_to_add[i].alloc =
                    constraint[((i - 1 - TotalUnits(constraint)) % Len(constraint)) + 1].key

\* The overflow wraps: more rows are left over than there are containers, after
\* some capacity was used.
C4_Witness ==
    /\ AllocReturned /\ stuff
    /\ Len(constraint) >= 2
    /\ TotalUnits(constraint) >= 1
    /\ Len(rows_to_add) > TotalUnits(constraint) + Len(constraint)
    /\ rows_to_add[Len(rows_to_add)].alloc # constraint[Len(constraint)].key

\* The row order, the index and the other column are as the caller passed
\* them, and every row holds a key of the constraint or null.
OnlyAllocColumnChanged ==
    /\ Len(rows_to_add) = Len(rows_given)
    /\ \A k \in DOMAIN rows_to_add :
          /\ rows_to_add[k].idx = rows_given[k].idx
          /\ rows_to_add[k].number = rows_given[k].number
          /\ rows_to_add[k].alloc \in ConstraintKeys(constraint) \cup {None}

SynthTables ==
    {t \in TablesOf(0..MaxSynthRows, {"a", "b", None}, {1, 2}) :
        t # <<>> => t[1].idx # 0}

Container(key, units) == [key |-> key, units |-> units, scaled |-> units * ScaleFactor]

\* The containers: capacities 1.5 and 2 with an index that is not sorted,
\* and a table that has no container "a".
GeoTables ==
    {<<Container("b", Denom + 1), Container("a", 2 * Denom)>>,
     <<Container("b", 2 * Denom)>>}

\* No filters, "number < 2" and "alloc == 'a'".
Filters ==
    {<<>>,
     <<[col |-> CountColumn, below |-> 2]>>,
     <<[col |-> "alloc", equals |-> "a"]>>}

Rules ==
    [target_value : 0..MaxTarget,
     capacity_expr : {None, "scaled / ScaleFactor"},
     filters : Filters,
     count : {None, CountColumn},
     stuff : BOOLEAN]

\* The rules of the targets tables of more than one row: they count rows
\* and take the capacity from the capacity column.
RowRules == {r \in Rules : r.capacity_expr = None /\ r.count = None}

\* Targets tables of one rule, and of two rules with the same stuff flag
\* (the latter are applied to the tables of fewer than MaxSynthRows rows).
TargetTables ==
    {<<r>> : r \in Rules}
    \cup {tt \in {<<r1, r2>> : r1 \in RowRules, r2 \in RowRules} :
              tt[1].stuff = tt[2].stuff}

InitSynth ==
    /\ op = "synthesize_from_table"
    /\ pc = "call"
    /\ df \in SynthTables
    /\ geo_df \in GeoTables
    /\ targets \in {tt \in TargetTables : Len(tt) > 1 => Len(df) < MaxSynthRows}
    /\ rule = 0
    /\ new_df = NoTable
    /\ step_df = NoTable
    /\ rows_to_add = <<>>
    /\ rows_given = <<>>
    /\ constraint = <<>>
    /\ stuff = FALSE
    /\ arg = 0
    /\ count = None
    /\ chosen = <<>>
    /\ amount = 0
    /\ sort_count = <<>>
    /\ orig_sort_count = <<>>
    /\ to_add = <<>>
    /\ result = NoTable
    /\ err = None
    /\ NoScaling
    /\ NoTableFrame

SynthFrame ==
    UNCHANGED <<op, df, geo_df, targets, rows_to_add, rows_given, stuff, arg, count,
                chosen, amount, sort_count, orig_sort_count, to_add,
                scaleVars, frameVars>>

\* new_df = df
SynthesizeFromTableCall ==
    /\ op = "synthesize_from_table" /\ pc = "call"
    /\ new_df' = df
    /\ pc' = "loop"
    /\ UNCHANGED <<rule, step_df, constraint, result, err>>
    /\ SynthFrame

SynthesizeOneCallOnDf ==
    /\ op = "synthesize_from_table" /\ pc = "loop"
    /\ rule < Len(targets)
    /\ \E o \in SynthesizeOne(df, targets[rule + 1], geo_df) :
           /\ step_df' = df
           /\ constraint' = o.constraints
           /\ IF o.err # None
              THEN Raise(o.err) /\ UNCHANGED <<new_df, rule>>
              ELSE /\ new_df' = o.table
                   /\ rule' = rule + 1
                   /\ UNCHANGED <<pc, result, err>>
    /\ SynthFrame

SynthesizeOneCallContinues ==
    /\ op = "synthesize_from_table" /\ pc = "loop"
    /\ rule < Len(targets)
    /\ \E o \in SynthesizeOne(new_df, targets[rule + 1], geo_df) :
           /\ step_df' = new_df
           /\ constraint' = o.constraints
           /\ rule' = rule + 1
           /\ IF o.err # None
              THEN result' = NoTable /\ err' = o.err /\ UNCHANGED <<new_df, pc>>
              ELSE /\ new_df' = o.table
                   /\ UNCHANGED <<pc, result, err>>
    /\ SynthFrame

\* One iteration of "for _, row in targets.iterrows()": synthesize_one is
\* called with the table of the previous iteration; an exception it raises
\* ends synthesize_from_table.
SynthesizeOneCall ==
    /\ op = "synthesize_from_table" /\ pc = "loop"
    /\ rule < Len(targets)
    /\ \E o \in SynthesizeOne(new_df, targets[rule + 1], geo_df) :
           /\ step_df' = new_df
           /\ constraint' = o.constraints
           /\ IF o.err # None
              THEN Raise(o.err) /\ UNCHANGED <<new_df, rule>>
              ELSE /\ new_df' = o.table
                   /\ rule' = rule + 1
                   /\ UNCHANGED <<pc, result, err>>
    /\ SynthFrame

\* return new_df
SynthesizeFromTableReturn ==
    /\ op = "synthesize_from_table" /\ pc = "loop"
    /\ rule = Len(targets)
    /\ Return(new_df)
    /\ UNCHANGED <<new_df, rule, step_df, constraint>>
    /\ SynthFrame

NextSynth ==
    \/ SynthesizeFromTableCall
    \/ SynthesizeOneCall
    \/ SynthesizeFromTableReturn

SpecSynth == InitSynth /\ [][NextSynth]_vars

(***************************************************************************)
(* Floating point (numpy.float64), with a significand of Precision bits    *)
(* instead of 53.  A number is [k, m, e]: k = "fin" and the value m * 2^e  *)
(* with m odd (or m = 0, e = 0), k = "inf" with the sign in m, k = "nan",  *)
(* or k = "undef" for what astype('int') makes of a non-finite value.      *)
(* Every operation rounds the exact result to the nearest number, ties to  *)
(* the even significand.                                                   *)
(***************************************************************************)
RECURSIVE Pow2(_)
Pow2(n) == IF n = 0 THEN 1 ELSE 2 * Pow2(n - 1)

Abs(x) == IF x < 0 THEN -x ELSE x

Sign(x) == IF x < 0 THEN -1 ELSE 1

Fin(m, e) == [k |-> "fin", m |-> m, e |-> e]

Inf(sign) == [k |-> "inf", m |-> sign, e |-> 0]

NaN == [k |-> "nan", m |-> 0, e |-> 0]

Undefined == [k |-> "undef", m |-> 0, e |-> 0]

Zero == Fin(0, 0)

IsFinite(x) == x.k = "fin"

\* The one representation of m * 2^e.
RECURSIVE Canon(_, _)
Canon(m, e) ==
    IF m = 0 THEN Zero
    ELSE IF m % 2 = 0 THEN Canon(m \div 2, e + 1)
    ELSE Fin(m, e)

\* The exact value of a finite number as a fraction n / d.
ToRat(x) ==
    IF x.e >= 0 THEN [n |-> x.m * Pow2(x.e), d |-> 1]
    ELSE [n |-> x.m, d |-> Pow2(-x.e)]

\* a / d brought to a significand of Precision bits: a / (d * 2^e) with
\* 2^(Precision-1) <= a / d < 2^Precision.
RECURSIVE Normal(_, _, _)
Normal(a, d, e) ==
    IF a >= Pow2(Precision) * d THEN Normal(a, 2 * d, e + 1)
    ELSE IF a < Pow2(Precision - 1) * d THEN Normal(2 * a, d, e - 1)
    ELSE [a |-> a, d |-> d, e |-> e]

\* a / d rounded to an integer, ties to even (a >= 0, d > 0).
RoundHalfEven(a, d) ==
    LET q == a \div d
        r == a % d
    IN  IF 2 * r > d \/ (2 * r = d /\ q % 2 = 1) THEN q + 1 ELSE q

\* The number nearest to n / d (d > 0).
Fl(n, d) ==
    IF n = 0 THEN Zero
    ELSE LET z == Normal(Abs(n), d, 0)
         IN  Canon(Sign(n) * RoundHalfEven(z.a, z.d), z.e)

FromInt(n) == Fl(n, 1)

\* x / y
FDiv(x, y) ==
    IF x.k = "nan" \/ y.k = "nan" THEN NaN
    ELSE IF x.k = "inf" THEN (IF y.k = "inf" THEN NaN ELSE Inf(x.m * Sign(y.m)))
    ELSE IF y.k = "inf" THEN Zero
    ELSE IF y.m = 0 THEN (IF x.m = 0 THEN NaN ELSE Inf(Sign(x.m)))
    ELSE LET a == ToRat(x)
             b == ToRat(y)
         IN  Fl(a.n * b.d * Sign(b.n), a.d * Abs(b.n))

\* x * y
FMul(x, y) ==
    IF x.k = "nan" \/ y.k = "nan" THEN NaN
    ELSE IF x.k = "inf" \/ y.k = "inf"
    THEN (IF x.m = 0 \/ y.m = 0 THEN NaN ELSE Inf(Sign(x.m) * Sign(y.m)))
    ELSE LET a == ToRat(x)
             b == ToRat(y)
         IN  Fl(a.n * b.n, a.d * b.d)

\* x + y
FAdd(x, y) ==
    IF x.k = "nan" \/ y.k = "nan" THEN NaN
    ELSE IF x.k = "inf" THEN (IF y.k = "inf" /\ y.m # x.m THEN NaN ELSE x)
    ELSE IF y.k = "inf" THEN y
    ELSE LET a == ToRat(x)
             b == ToRat(y)
         IN  Fl(a.n * b.d + b.n * a.d, a.d * b.d)

\* x < y; a comparison with nan is false
Less(x, y) ==
    IF x.k = "nan" \/ y.k = "nan" THEN FALSE
    ELSE IF x.k = "inf" THEN x.m < 0 /\ ~(y.k = "inf" /\ y.m < 0)
    ELSE IF y.k = "inf" THEN y.m > 0
    ELSE LET a == ToRat(x)
             b == ToRat(y)
         IN  a.n * b.d < b.n * a.d

(***************************************************************************)
(* Scaling (spandex/targets/scaling.py and spandex/targets.py).  A column  *)
(* (pandas.Series) is a sequence of numbers; the table of                  *)
(* scale_to_targets holds target_col in the field number and the column    *)
(* the filters read, geo_id, in the field alloc.                           *)
(***************************************************************************)
\* pd.Series.sum: the values added one after the other
RECURSIVE SeriesSum(_, _)
SeriesSum(c, n) == IF n = 0 THEN Zero ELSE FAdd(SeriesSum(c, n - 1), c[n])

\* pd.Series.mean
SeriesMean(c) == FDiv(SeriesSum(c, Len(c)), FromInt(Len(c)))

\* The n-th smallest value of a column.
Smallest(c, n) ==
    c[CHOOSE i \in DOMAIN c :
          /\ Cardinality({j \in DOMAIN c : Less(c[j], c[i])}) < n
          /\ Cardinality({j \in DOMAIN c : ~Less(c[i], c[j])}) >= n]

\* pd.Series.median: the middle value, or the mean of the two middle values
SeriesMedian(c) ==
    IF c = <<>> THEN NaN
    ELSE IF Len(c) % 2 = 1 THEN Smallest(c, (Len(c) + 1) \div 2)
    ELSE FDiv(FAdd(Smallest(c, Len(c) \div 2), Smallest(c, Len(c) \div 2 + 1)),
              FromInt(2))

MetricFunc(metric_name, c) ==
    CASE metric_name = "mean" -> SeriesMean(c)
      [] metric_name = "sum" -> SeriesSum(c, Len(c))
      [] metric_name = "median" -> SeriesMedian(c)

ScaleColByInverse(c, goal, metric_name) ==
    LET current == MetricFunc(metric_name, c)
        multiplier == FDiv(current, goal)
    IN  [i \in DOMAIN c |-> FMul(c[i], multiplier)]

\* _scale_col_to_target(col, target, metric_func)
ScaleCol(c, goal, metric_name) ==
    LET current == MetricFunc(metric_name, c)
        multiplier == FDiv(goal, current)
    IN  [i \in DOMAIN c |-> FMul(c[i], multiplier)]

\* clip_low=None, clip_high=None
NoBound == [k |-> "none", m |-> 0, e |-> 0]

\* Series.clip(lower, upper) of one value; a bound that is None is no bound
ClipValue(x, lower, upper) ==
    LET low == IF lower # NoBound /\ Less(x, lower) THEN lower ELSE x
    IN  IF upper # NoBound /\ Less(upper, low) THEN upper ELSE low

Clip(c, lower, upper) == [i \in DOMAIN c |-> ClipValue(c[i], lower, upper)]

\* Series.round() of one value: to the nearest integer, ties to even
RoundValue(x) ==
    IF ~IsFinite(x) \/ x.e >= 0 THEN x
    ELSE FromInt(Sign(x.m) * RoundHalfEven(Abs(x.m), Pow2(-x.e)))

Round(c) == [i \in DOMAIN c |-> RoundValue(c[i])]

\* Series.astype('int'): the outcomes.  The values are whole numbers after
\* round(); a value that is not finite makes the cast raise ValueError or
\* gives an integer that is not specified, depending on the library.
AsTypeInt(c) ==
    IF \A i \in DOMAIN c : IsFinite(c[i]) THEN {[value |-> c, err |-> None]}
    ELSE {[value |-> <<>>, err |-> "ValueError"],
          [value |-> [i \in DOMAIN c |-> IF IsFinite(c[i]) THEN c[i] ELSE Undefined],
           err |-> None]}

UnknownMetric == "ValueError: Unknown metric type"

ClipThenRoundFirst(c, lower, upper, as_int) ==
    IF as_int THEN {[value |-> Clip(o.value, lower, upper), err |-> o.err] :
                       o \in AsTypeInt(Round(c))}
    ELSE {[value |-> Clip(c, lower, upper), err |-> None]}

\* scaled.clip(clip_low, clip_high), then round().astype('int') if int_result
ClipThenRound(c, lower, upper, as_int) ==
    IF as_int THEN AsTypeInt(Round(Clip(c, lower, upper)))
    ELSE {[value |-> Clip(c, lower, upper), err |-> None]}

\* scale_col_to_target(col, target, metric, clip_low, clip_high, int_result):
\* the outcomes [value, err]
ScaleColToTarget(c, goal, metric_name, lower, upper, as_int) ==
    IF metric_name \notin {"mean", "sum", "median"}
    THEN {[value |-> <<>>, err |-> UnknownMetric]}
    ELSE ClipThenRound(ScaleCol(c, goal, metric_name), lower, upper, as_int)

\* df[target_col] as a column, and the table with the column replaced
TargetCol(t) == [i \in DOMAIN t |-> t[i].number]

WithTargetCol(t, c) == [i \in DOMAIN t |-> [t[i] EXCEPT !.number = c[i]]]

\* The value the series holds under a label.
ValueAt(t, label) == t[CHOOSE i \in DOMAIN t : t[i].idx = label].number

\* zip(targets, filters): the pairs up to the end of the shorter sequence
Zip(goals, fs) ==
    LET n == IF Len(goals) <= Len(fs) THEN Len(goals) ELSE Len(fs)
    IN  [i \in 1..n |-> [t |-> goals[i], f |-> fs[i]]]

\* filters or [None] * len(targets)
FiltersOrNone(fs, goals) == IF fs # <<>> THEN fs ELSE [i \in DOMAIN goals |-> <<>>]

\* The loop of scale_to_targets and pd.concat(scaled): every segment is
\* scaled without clip bounds and without rounding, the rows of the
\* segments one after the other.
RECURSIVE ScaledSegments(_, _, _, _)
ScaledSegments(t, pairs, metric_name, n) ==
    IF n = 0 THEN <<>>
    ELSE LET series == ApplyFilterQuery(t, pairs[n].f)
         IN  ScaledSegments(t, pairs, metric_name, n - 1)
             \o WithTargetCol(series, ScaleCol(TargetCol(series), pairs[n].t, metric_name))

\* update_series(s1, s2): the values of s2 set in s1 under their labels,
\* one after the other (the labels of s2 are labels of s1)
UpdateSeries(s1, s2) ==
    [i \in DOMAIN s1 |->
        IF \E j \in DOMAIN s2 : s2[j].idx = s1[i].idx
        THEN [s1[i] EXCEPT !.number =
                 s2[CHOOSE j \in DOMAIN s2 :
                        /\ s2[j].idx = s1[i].idx
                        /\ \A n \in DOMAIN s2 : s2[n].idx = s1[i].idx => n <= j].number]
        ELSE s1[i]]

\* scale_to_targets of spandex/targets/scaling.py: the outcomes [table, err].
\* The scaled values are clipped and rounded, then assigned through
\* df[target_col].loc[...], an assignment to what df[target_col] returns:
\* it reaches the copy of df or it does not.
ScaleToTargets(t, goals, metric_name, fs, lower, upper, as_int) ==
    IF metric_name \notin {"mean", "sum", "median"}
    THEN {[table |-> NoTable, err |-> UnknownMetric]}
    ELSE LET pairs == Zip(goals, FiltersOrNone(fs, goals))
             scaled == ScaledSegments(t, pairs, metric_name, Len(pairs))
         IN  UNION {IF o.err # None THEN {[table |-> NoTable, err |-> o.err]}
                    ELSE {[table |-> UpdateSeries(t, WithTargetCol(scaled, o.value)),
                           err |-> None],
                          [table |-> t, err |-> None]} :
                       o \in ClipThenRound(TargetCol(scaled), lower, upper, as_int)}

\* scale_to_targets of spandex/targets.py: the outcomes [table, err].  The
\* scaled values are set in the whole column with update_series, and the
\* whole column is clipped and rounded.
ScaleToTargetsUpdateSeries(t, goals, metric_name, fs, lower, upper, as_int) ==
    IF metric_name \notin {"mean", "sum", "median"}
    THEN {[table |-> NoTable, err |-> UnknownMetric]}
    ELSE LET pairs == Zip(goals, FiltersOrNone(fs, goals))
             scaled == ScaledSegments(t, pairs, metric_name, Len(pairs))
             updated == UpdateSeries(t, scaled)
         IN  {[table |-> IF o.err = None THEN WithTargetCol(t, o.value) ELSE NoTable,
               err |-> o.err] :
                 o \in ClipThenRound(TargetCol(updated), lower, upper, as_int)}


(***************************************************************************)
(* The callers of the scaling functions.                                   *)
(***************************************************************************)
\* Columns of whole numbers, some of them with a sum, mean or median of 0.
ColValues == {FromInt(v) : v \in {-1, 0, 1, MaxVal}}

Columns == UNION {[1..n -> ColValues] : n \in 1..MaxLen}

Goals == {FromInt(g) : g \in {-1, 0, 1, MaxGoal}}

Metrics == {"mean", "median", "sum", "mode"}

\* Clip bounds: none, 1.5 and 2.5, the lower one not above the upper one.
Bounds == {NoBound, Fin(3, -1), Fin(5, -1)}

BoundPairs ==
    {b \in [low : Bounds, high : Bounds] :
        b.low = NoBound \/ b.high = NoBound \/ ~Less(b.high, b.low)}

\* The bounds of the calls of scale_to_targets: none, or 1.5 and 2.5.
TableBoundPairs ==
    {b \in BoundPairs : b.low # Fin(5, -1) /\ b.high # Fin(3, -1)}

\* The tables of scale_to_targets: rows of geo_id "a" or "b", the first of
\* them "a", under index labels that are neither sorted nor contiguous,
\* target_col 1 or MaxVal.
ScaleTables ==
    {t \in TablesOf(1..MaxLen, {"a", "b"}, {FromInt(1), FromInt(MaxVal)}) :
        t[1].idx # 0 /\ t[1].alloc = "a"}

GeoIs(g) == <<[col |-> "alloc", equals |-> g]>>

\* filters: None, [None], and one or two segments by geo_id
FilterLists ==
    {<<>>, <<(<<>>)>>, <<GeoIs("a")>>, <<GeoIs("a"), GeoIs("b")>>,
     <<GeoIs("b"), GeoIs("a")>>}

\* targets: one or two values, of the same length as filters or not; the
\* segments of a call do not overlap.
GoalLists ==
    {<<FromInt(1)>>, <<FromInt(MaxGoal)>>, <<FromInt(MaxGoal), FromInt(1)>>,
     <<FromInt(2), FromInt(MaxGoal)>>}

ScaleOps == {"scale_col_to_target", "scale_to_targets", "targets.scale_to_targets"}

InitScale ==
    /\ op \in ScaleOps
    /\ pc = "call"
    /\ int_result \in BOOLEAN
    /\ IF op = "scale_col_to_target"
       THEN /\ col \in Columns
            /\ target_arg \in Goals
            /\ metric \in Metrics
            /\ \E b \in BoundPairs : clip_low = b.low /\ clip_high = b.high
            /\ df = <<>>
            /\ targets = <<>>
            /\ filters_arg = <<>>
       ELSE /\ col = <<>>
            /\ target_arg = 0
            /\ metric \in Metrics \ {"median"}
            /\ \E b \in TableBoundPairs : clip_low = b.low /\ clip_high = b.high
            /\ df \in ScaleTables
            /\ targets \in GoalLists
            /\ filters_arg \in {f \in FilterLists : f = <<>> => Len(targets) = 1}
    /\ rows_to_add = <<>>
    /\ rows_given = <<>>
    /\ constraint = <<>>
    /\ stuff = FALSE
    /\ arg = 0
    /\ count = None
    /\ chosen = <<>>
    /\ amount = 0
    /\ sort_count = <<>>
    /\ orig_sort_count = <<>>
    /\ to_add = <<>>
    /\ result = NoTable
    /\ err = None
    /\ geo_df = <<>>
    /\ rule = 0
    /\ new_df = NoTable
    /\ step_df = NoTable
    /\ NoTableFrame

ScaleFrame ==
    UNCHANGED <<op, df, rows_to_add, rows_given, constraint, stuff, arg, count,
                chosen, amount, sort_count, orig_sort_count, to_add,
                geo_df, targets, rule, new_df, step_df, scaleVars, frameVars>>

\* scale_col_to_target(col, target, metric, clip_low, clip_high, int_result)
ScaleColToTargetCall ==
    /\ op = "scale_col_to_target" /\ pc = "call"
    /\ \E o \in ScaleColToTarget(col, target_arg, metric, clip_low, clip_high, int_result) :
           IF o.err # None THEN Raise(o.err) ELSE Return(o.value)
    /\ ScaleFrame

\* scale_to_targets of spandex/targets/scaling.py
ScaleToTargetsCall ==
    /\ op = "scale_to_targets" /\ pc = "call"
    /\ \E o \in ScaleToTargets(df, targets, metric, filters_arg, clip_low, clip_high,
                               int_result) :
           IF o.err # None THEN Raise(o.err) ELSE Return(o.table)
    /\ ScaleFrame

\* scale_to_targets of spandex/targets.py
ScaleToTargetsUpdateSeriesCall ==
    /\ op = "targets.scale_to_targets" /\ pc = "call"
    /\ \E o \in ScaleToTargetsUpdateSeries(df, targets, metric, filters_arg, clip_low,
                                           clip_high, int_result) :
           IF o.err # None THEN Raise(o.err) ELSE Return(o.table)
    /\ ScaleFrame

NextScale ==
    \/ ScaleColToTargetCall
    \/ ScaleToTargetsCall
    \/ ScaleToTargetsUpdateSeriesCall

SpecScale == InitScale /\ [][NextScale]_vars

(***************************************************************************)
(* TableFrame of spandex/io.py: a read-only view of a database table with  *)
(* a cache of the columns it has queried.  The model keeps the names of    *)
(* the columns, not their values: cached is the set of keys of _cached and *)
(* queried the columns that the latest lookup asked the database for.      *)
(***************************************************************************)
\* TableFrame.columns: the column names of the wrapped table
TableColumnNames == {"col1", "col2", "col3"}

\* The keys of a lookup: one column name or a list of them.
LookupKeys == SUBSET TableColumnNames \ {{}}

\* The attribute names that are assigned to.
AttrNames == {"cache", "index"}

\* __init__(self, table, index_name=None, cache=False): the cache argument
\* is left out, and takes its default, or is given.
InitFrame ==
    /\ op = "TableFrame"
    /\ pc = "init"
    /\ cache_from \in {"default", "argument"}
    /\ cache \in (IF cache_from = "default" THEN {FALSE} ELSE BOOLEAN)
    /\ cached = {}
    /\ queried = {}
    /\ key_arg = {}
    /\ df = <<>>
    /\ rows_to_add = <<>>
    /\ rows_given = <<>>
    /\ constraint = <<>>
    /\ stuff = FALSE
    /\ arg = 0
    /\ count = None
    /\ chosen = <<>>
    /\ amount = 0
    /\ sort_count = <<>>
    /\ orig_sort_count = <<>>
    /\ to_add = <<>>
    /\ result = NoTable
    /\ err = None
    /\ geo_df = <<>>
    /\ targets = <<>>
    /\ rule = 0
    /\ new_df = NoTable
    /\ step_df = NoTable
    /\ NoScaling

TableFrameFrame ==
    UNCHANGED <<op, df, rows_to_add, rows_given, constraint, stuff, arg, count,
                chosen, amount, sort_count, orig_sort_count, to_add, result,
                geo_df, targets, rule, new_df, step_df, scaleVars>>

\* The columns __getitem__ asks the database for: with the cache on, those
\* of the key that are not cached; with the cache off, all of the key.
QueryColumns(names) == IF cache THEN names \ cached ELSE names

\* __getitem__(self, key) and __getattr__(self, key)
GetItem(names) ==
    /\ op = "TableFrame"
    /\ pc' = "getitem"
    /\ err' = None
    /\ key_arg' = names
    /\ queried' = QueryColumns(names)
    /\ cached' = IF cache THEN cached \cup QueryColumns(names) ELSE cached
    /\ UNCHANGED <<cache, cache_from>>
    /\ TableFrameFrame

\* clear(self)
Clear ==
    /\ op = "TableFrame"
    /\ pc' = "clear"
    /\ err' = None
    /\ cached' = {}
    /\ UNCHANGED <<cache, cache_from, queried, key_arg>>
    /\ TableFrameFrame

\* __setattr__(self, name, value)
SetAttr(name, value) ==
    /\ op = "TableFrame"
    /\ pc' = "setattr"
    /\ IF name = "cache"
       THEN /\ cache' = value
            /\ cache_from' = "attribute"
            /\ err' = None
       ELSE /\ err' = "TypeError"
            /\ UNCHANGED <<cache, cache_from>>
    /\ UNCHANGED <<cached, queried, key_arg>>
    /\ TableFrameFrame

NextFrame ==
    \/ \E names \in LookupKeys : GetItem(names)
    \/ Clear
    \/ \E name \in AttrNames, value \in BOOLEAN : SetAttr(name, value)

SpecFrame == InitFrame /\ [][NextFrame]_vars

(***************************************************************************)
(* Properties of the add / remove functions (checked under SpecSyn).       *)
(***************************************************************************)
Returned(o) == op = o /\ pc = "done" /\ err = None

Ended(o) == op = o /\ pc = "done"

Numbers(t) == {t[k].number : k \in DOMAIN t}

\* The sum of the count values of the rows at the positions in S.
RECURSIVE SumOver(_, _)
SumOver(t, S) ==
    IF S = {} THEN 0
    ELSE LET k == CHOOSE x \in S : TRUE IN t[k].number + SumOver(t, S \ {k})

TableSum(t) == SumOver(t, DOMAIN t)

\* Some set of distinct rows has count values summing to a.
SubsetSums(t, a) == \E S \in SUBSET DOMAIN t : SumOver(t, S) = a

\* Some multiset of rows (a row may be taken more than once) sums to a.
MultisetSums(t, a) ==
    \E f \in [DOMAIN t -> 0..a] :
        LET RECURSIVE Weighted(_)
            Weighted(S) ==
                IF S = {} THEN 0
                ELSE LET k == CHOOSE x \in S : TRUE
                     IN  f[k] * t[k].number + Weighted(S \ {k})
        IN  Weighted(DOMAIN t) = a

\* Of any two count values the smaller divides the larger.
DivisibilityChain(t) == \A x, y \in Numbers(t) : x <= y => y % x = 0

\* The smallest count value divides every count value.
SmallestDividesAll(t) == \E m \in Numbers(t) : \A x \in Numbers(t) : x % m = 0

SmallestNumber(t) == CHOOSE m \in Numbers(t) : \A x \in Numbers(t) : m <= x

CanAllocate == Len(constraint) >= 1 \/ ~stuff

\* C6: row-count removal removes exactly the requested number of rows:
\* _remove_rows(df, num) with 0 <= num <= len(df) returns len(df) - num rows,
\* the rows removed being num distinct rows, and _add_or_remove_rows with
\* count=None and target < len(df) returns exactly target rows.
C6_RemovesExactly ==
    /\ (Returned("remove_rows") /\ arg <= Len(df)) =>
           /\ Len(result) = Len(df) - arg
           /\ \A i, j \in DOMAIN chosen : i # j => chosen[i] # chosen[j]
    /\ (Returned("add_or_remove_rows") /\ count = None /\ arg < Len(df)) =>
           Len(result) = arg

C8_NoOp ==
    (Ended("add_or_remove_rows")
        /\ \/ count = None /\ arg = Len(df)
           \/ count # None /\ arg = TableSum(df)) =>
        /\ err = None
        /\ result = df

\* The target by count is met by a table of several rows, whose sum is not
\* its number of rows, with stuff on.
C8_Witness ==
    /\ Returned("add_or_remove_rows") /\ count # None /\ stuff
    /\ Len(df) >= 2 /\ df[1].idx > df[2].idx
    /\ arg = TableSum(df) /\ arg # Len(df)
    /\ result = df

\* C9 as stated: whenever some set of distinct rows has count values summing
\* to amount > 0, _remove_rows_by_count returns a table whose count sum is
\* df[count].sum() - amount.
C9_Original ==
    (Returned("remove_rows_by_count") /\ arg > 0 /\ SubsetSums(df, arg)) =>
        TableSum(result) = TableSum(df) - arg

\* C9, amended: the same when, in addition, of any two count values of the
\* table the smaller divides the larger; for other values the descending
\* greedy walk can miss an exact match (counts 3, 2, 2 and amount 4).
C9_RemoveByCountExact ==
    (Ended("remove_rows_by_count") /\ arg > 0 /\ SubsetSums(df, arg)
        /\ DivisibilityChain(df)) =>
        /\ err = None
        /\ TableSum(result) = TableSum(df) - arg

\* Two rows of different count values are removed and one row stays.
C9_Witness ==
    /\ Returned("remove_rows_by_count")
    /\ DivisibilityChain(df) /\ Cardinality(Numbers(df)) >= 2
    /\ arg > 0 /\ SubsetSums(df, arg)
    /\ Len(df) = 3 /\ Len(result) = 1
    /\ df[1].number < df[2].number

C12_BestEffortNoError ==
    ((Ended("add_rows_by_count") \/ Ended("remove_rows_by_count"))
        /\ df # <<>> /\ arg > 0 /\ CanAllocate) =>
        /\ err = None
        /\ result # NoTable

\* C13: _add_or_remove_rows never mutates its input table: every step of a
\* call leaves df as it was, and the table the allocator assigns in place
\* holds only newly created rows (labels that df does not have), which
\* differ from the copied rows in the allocation column alone.
C13_InputNotMutated ==
    [][op = "add_or_remove_rows" =>
          /\ df' = df
          /\ \A k \in DOMAIN rows_to_add' : rows_to_add'[k].idx \notin IndexSet(df)
          /\ Len(rows_to_add') = Len(rows_given')
          /\ \A k \in DOMAIN rows_to_add' :
                 rows_to_add'[k] = [rows_given'[k] EXCEPT !.alloc = rows_to_add'[k].alloc]]_vars

\* The allocator has assigned containers to new rows, which the returned
\* table holds after the rows of df.
C13_Witness ==
    /\ Returned("add_or_remove_rows")
    /\ Len(rows_to_add) >= 2
    /\ rows_to_add # rows_given
    /\ result = df \o rows_to_add

(***************************************************************************)
(* Properties of synthesize_one and synthesize_from_table (checked under   *)
(* SpecSynth).  After a call of synthesize_one, step_df is the table it    *)
(* was given and StepRule the rule it applied; when it returned, new_df is *)
(* the table it returned.                                                  *)
(***************************************************************************)
Stepped == op = "synthesize_from_table" /\ step_df # NoTable

StepReturned == Stepped /\ err = None

StepRule == IF err # None THEN targets[rule + 1] ELSE targets[rule]

\* The positions of the rows of t that satisfy the filters.
Satisfying(t, filters) ==
    {k \in DOMAIN t : \A n \in DOMAIN filters : Holds(t[k], filters[n])}

GeoKeys == {geo_df[i].key : i \in DOMAIN geo_df}

AbsentKeyRows(t) == {k \in DOMAIN t : t[k].alloc # None /\ t[k].alloc \notin GeoKeys}

\* C14: synthesize_one raises, before it adds or removes any row, whenever
\* some row of df, filtered or not, is assigned to a container key that the
\* index of geo_df does not have.
C14_NonExistentContainer ==
    (Stepped /\ AbsentKeyRows(step_df) # {}) =>
        /\ err = NonExistentContainers
        /\ result = NoTable
        /\ new_df = step_df

\* The only row in an absent container does not pass the filters of the rule.
C14_Witness ==
    /\ Stepped /\ err = NonExistentContainers
    /\ StepRule.filters # <<>>
    /\ AbsentKeyRows(step_df) # {}
    /\ AbsentKeyRows(step_df) \cap Satisfying(step_df, StepRule.filters) = {}
    /\ Satisfying(step_df, StepRule.filters) # {}

\* C15 as stated: synthesize_one raises whenever the filtered subset of df is
\* empty and target is not 0, and returns a table equal to df when the
\* filtered subset is empty and target is 0.
C15_Original ==
    (Stepped /\ Satisfying(step_df, StepRule.filters) = {}) =>
        IF StepRule.target_value # 0
        THEN err # None /\ result = NoTable
        ELSE err = None /\ new_df = step_df

\* C15, amended: the table equal to df is returned when, in addition, every
\* row of df that has a container has one of geo_df; otherwise the call
\* raises the error of the non-existent containers.
C15_EmptySubset ==
    (Stepped /\ Satisfying(step_df, StepRule.filters) = {}) =>
        IF StepRule.target_value # 0
        THEN err \in {NoRowsToSynthesize, NonExistentContainers} /\ result = NoTable
        ELSE IF AbsentKeyRows(step_df) # {}
        THEN err = NonExistentContainers /\ result = NoTable
        ELSE err = None /\ new_df = step_df

\* No row of a non-empty table passes the filters and the target is 0: the
\* table is returned as it is.
C15_Witness ==
    /\ StepReturned
    /\ step_df # <<>>
    /\ Satisfying(step_df, StepRule.filters) = {}
    /\ StepRule.target_value = 0
    /\ new_df = step_df

\* The capacity of a container under the capacity source of the rule.
Capacity(i) ==
    IF StepRule.capacity_expr # None THEN geo_df[i].scaled \div ScaleFactor
    ELSE geo_df[i].units

\* The capacity left in a container: its capacity minus the rows of the
\* whole table given to the call that are assigned to it.
CapacityLeft(i) ==
    Capacity(i) - Denom * Cardinality({k \in DOMAIN step_df : step_df[k].alloc = geo_df[i].key})

\* The constraint holds every container of geo_df once, with what is left.
ConstraintIsCapacityLeft ==
    /\ Len(constraint) = Len(geo_df)
    /\ \A i \in DOMAIN geo_df :
           \E j \in DOMAIN constraint :
               /\ constraint[j].key = geo_df[i].key
               /\ constraint[j].val = CapacityLeft(i)

\* The positions in new_df of the rows the call added.
AddedRows == {k \in DOMAIN new_df : new_df[k].idx \notin IndexSet(step_df)}

AddedTo(key) == Cardinality({k \in AddedRows : new_df[k].alloc = key})

\* C16 as stated: the constraint gives every container capacity minus its
\* rows in the whole df (0 rows for a container without rows), so with
\* stuff=False the new rows placed in a container number at most
\* floor(capacity - occupancy).
C16_Original ==
    (Stepped /\ err # NonExistentContainers) =>
        /\ ConstraintIsCapacityLeft
        /\ (err = None /\ ~StepRule.stuff) =>
               \A i \in DOMAIN geo_df :
                   AddedTo(geo_df[i].key) <= CapacityLeft(i) \div Denom

\* C16, amended: the new rows placed in a container number at most
\* floor(capacity - occupancy) when that is 1 or more, and none is placed in
\* a container that has less than 1 left (a container can hold more rows
\* than its capacity, and capacity - occupancy is then negative).
C16_RemainingCapacity ==
    (Stepped /\ err # NonExistentContainers) =>
        /\ ConstraintIsCapacityLeft
        /\ (err = None /\ ~StepRule.stuff) =>
               \A i \in DOMAIN geo_df :
                   IF CapacityLeft(i) >= Denom
                   THEN AddedTo(geo_df[i].key) <= CapacityLeft(i) \div Denom
                   ELSE AddedTo(geo_df[i].key) = 0

\* The rule selects one row of two; the other row counts in the occupancy
\* of its container, which is filled to what is left, and a new row is
\* left without a container.
C16_Witness ==
    /\ StepReturned /\ ~StepRule.stuff
    /\ Len(step_df) = 2
    /\ Cardinality(Satisfying(step_df, StepRule.filters)) = 1
    /\ \E i \in DOMAIN geo_df :
           /\ \E k \in DOMAIN step_df \ Satisfying(step_df, StepRule.filters) :
                  step_df[k].alloc = geo_df[i].key
           /\ CapacityLeft(i) >= Denom
           /\ AddedTo(geo_df[i].key) = CapacityLeft(i) \div Denom
    /\ AddedTo(None) >= 1

\* C17: synthesize_one carries the change of the subset to the full table:
\* the rows the filters do not select are in the result as they were, under
\* their index label; the rows removed are rows of the filtered subset; the
\* rows added have the labels max(df.index) + 1, + 2, ... of the full table;
\* and no two rows of the result have the same label.
C17_Reconciled ==
    StepReturned =>
        LET selected == Satisfying(step_df, StepRule.filters)
        IN  /\ \A k \in DOMAIN step_df \ selected :
                   \E n \in DOMAIN new_df : new_df[n] = step_df[k]
            /\ \A k \in DOMAIN step_df :
                   (\A n \in DOMAIN new_df : new_df[n].idx # step_df[k].idx) =>
                       k \in selected
            /\ \A n \in DOMAIN new_df :
                   new_df[n].idx \in IndexSet(step_df) =>
                       \E k \in DOMAIN step_df : step_df[k] = new_df[n]
            /\ {new_df[n].idx : n \in AddedRows} =
                   {IndexMax(step_df) + j : j \in 1..Cardinality(AddedRows)}
            /\ \A m, n \in DOMAIN new_df : m # n => new_df[m].idx # new_df[n].idx

\* Rows are added for a subset whose largest label is below that of a row
\* the filters do not select.
C17_Witness ==
    /\ StepReturned
    /\ LET selected == Satisfying(step_df, StepRule.filters)
       IN  /\ selected # {}
           /\ \E k \in DOMAIN step_df \ selected :
                  \A n \in selected : step_df[n].idx < step_df[k].idx
    /\ Cardinality(AddedRows) >= 2

C18_FilteredCount ==
    (StepReturned /\ StepRule.count = None /\ StepRule.filters # <<>>
        /\ (\A n \in DOMAIN StepRule.filters : StepRule.filters[n].col # "alloc")
        /\ StepRule.target_value > Cardinality(Satisfying(step_df, StepRule.filters))) =>
        Cardinality(Satisfying(new_df, StepRule.filters)) = StepRule.target_value

\* Two rows are added for a subset selected by the count column, next to a
\* row the filters do not select.
C18_Witness ==
    /\ StepReturned /\ StepRule.count = None /\ StepRule.filters # <<>>
    /\ \A n \in DOMAIN StepRule.filters : StepRule.filters[n].col # "alloc"
    /\ Satisfying(step_df, StepRule.filters) # DOMAIN step_df
    /\ StepRule.target_value = Cardinality(Satisfying(step_df, StepRule.filters)) + 2
    /\ Cardinality(Satisfying(new_df, StepRule.filters)) = StepRule.target_value

\* What is left in container i when the table given is t and the rule r.
LeftIn(i, t, r) ==
    (IF r.capacity_expr # None THEN geo_df[i].scaled \div ScaleFactor ELSE geo_df[i].units)
    - Denom * Cardinality({k \in DOMAIN t : t[k].alloc = geo_df[i].key})

\* The tables synthesize_from_table can return for the two rules of the
\* targets table taken in the other order.
SwappedResults ==
    LET first == {o \in SynthesizeOne(df, targets[2], geo_df) : o.err = None}
        second == UNION {SynthesizeOne(o.table, targets[1], geo_df) : o \in first}
    IN  {o.table : o \in {x \in second : x.err = None}}

\* C19: synthesize_from_table applies the rules in the row order of the
\* targets table, each to the table the rule before it returned: a call of
\* synthesize_one for rule k is given the output of rule k-1, whose
\* occupancy is what its constraint subtracts, whose filtered subset is
\* where rows are removed and cloned, and whose largest index label is where
\* the labels of the new rows start; the table returned in the end is the
\* output of the last rule.
C19_RulesInOrder ==
    /\ [][(op = "synthesize_from_table" /\ pc = "loop" /\ rule < Len(targets)) =>
            LET r == targets[rule + 1]
                selected == Satisfying(new_df, r.filters)
                added == {n \in DOMAIN new_df' : new_df'[n].idx \notin IndexSet(new_df)}
            IN  /\ step_df' = new_df
                /\ err' # NonExistentContainers =>
                       \A i \in DOMAIN geo_df :
                           \E j \in DOMAIN constraint' :
                               /\ constraint'[j].key = geo_df[i].key
                               /\ constraint'[j].val = LeftIn(i, new_df, r)
                /\ err' = None =>
                       /\ rule' = rule + 1
                       /\ \A k \in DOMAIN new_df :
                              (\A n \in DOMAIN new_df' : new_df'[n].idx # new_df[k].idx) =>
                                  k \in selected
                       /\ \A n \in added :
                              /\ new_df'[n].idx > IndexMax(new_df)
                              /\ \E k \in selected : new_df'[n].number = new_df[k].number]_vars
    /\ [](op = "synthesize_from_table" /\ pc = "done" /\ err = None =>
             result = new_df /\ rule = Len(targets))

\* The second rule was given a table that the first rule had changed, and
\* the table returned is none of those the rules return in the other order.
C19_Witness ==
    /\ op = "synthesize_from_table" /\ pc = "done" /\ err = None
    /\ Len(targets) = 2
    /\ step_df # df
    /\ result # step_df
    /\ SwappedResults # {}
    /\ result \notin SwappedResults

\* C20: when synthesize_one fails for a rule, synthesize_from_table ends
\* with that error: nothing is returned, no rule after it is applied, and
\* the caller's df is as it was.
C20_FailureAborts ==
    /\ [](op = "synthesize_from_table" /\ err # None =>
             /\ pc = "done"
             /\ result = NoTable
             /\ rule < Len(targets)
             /\ err \in {o.err : o \in SynthesizeOne(step_df, targets[rule + 1], geo_df)})
    /\ [][err = None /\ df' = df]_vars

\* The first rule changed the table and the second rule failed.
C20_Witness ==
    /\ op = "synthesize_from_table" /\ pc = "done" /\ err # None
    /\ Len(targets) = 2 /\ rule = 1
    /\ step_df # df
    /\ result = NoTable

(***************************************************************************)
(* Properties of the count-based paths (checked under SpecSyn and, for the *)
(* loop, under SpecLoop).                                                  *)
(***************************************************************************)
\* C28: the count-based paths never overshoot: when _add_rows_by_count
\* returns, the rows of df are followed by new rows whose count values sum
\* to at most amount, and when _remove_rows_by_count returns, the rows that
\* are gone have count values summing to at most amount; through
\* _add_or_remove_rows the sum of the result is at most a larger target and
\* at least a smaller one.
C28_NeverOvershoots ==
    /\ Returned("add_rows_by_count") =>
           /\ SubSeq(result, 1, Len(df)) = df
           /\ TableSum(result) - TableSum(df) <= arg
    /\ Returned("remove_rows_by_count") =>
           /\ IndexSet(result) \subseteq IndexSet(df)
           /\ TableSum(df) - TableSum(result) \in 0..arg
    /\ (Returned("add_or_remove_rows") /\ count # None) =>
           IF arg >= TableSum(df) THEN TableSum(result) \in TableSum(df)..arg
           ELSE TableSum(result) \in arg..TableSum(df)

\* The selection stopped short of the amount after popping a pick: rows
\* were added, of a count value that is no more than what is left to add.
C28_Witness ==
    /\ Returned("add_rows_by_count")
    /\ Len(result) > Len(df)
    /\ TableSum(result) - TableSum(df) < arg
    /\ \E k \in DOMAIN df : df[k].number <= arg - (TableSum(result) - TableSum(df))

\* The largest count value of a series, 0 for an empty one.
MaxValue(sc) ==
    IF sc = <<>> THEN 0
    ELSE LET i == CHOOSE x \in DOMAIN sc : \A y \in DOMAIN sc : sc[y].v <= sc[x].v
         IN  sc[i].v

\* The amount the loop starts with.
AmountOfCall == IF op = "add_rows_by_count" THEN arg ELSE arg - TableSum(df)

\* What an iteration of the loop makes smaller: the largest value still in
\* sort_count first, the amount left second.
Measure == MaxValue(sort_count) * (AmountOfCall + 1) + amount

InLoop == pc = "while" /\ amount >= 1

\* C29: the while loop of _add_rows_by_count ends: the amount left stays
\* between 0 and the amount of the call, every iteration that goes round
\* again makes the measure (largest value in sort_count, amount left)
\* strictly smaller, and a call that is in the loop leaves it (the
\* condition fails, the loop breaks or to_add.pop() raises).
C29_LoopTerminates ==
    /\ [](pc \in {"while", "after"} => amount \in 0..AmountOfCall)
    /\ [][(InLoop /\ pc' = "while") => Measure' < Measure]_vars
    /\ (InLoop ~> ~InLoop)

\* The loop popped its last pick, picked a row of a smaller count value in
\* its place and is about to go round again.
C29_Witness ==
    /\ op = "add_rows_by_count" /\ InLoop
    /\ to_add # <<>>
    /\ MaxValue(sort_count) < MaxValue(orig_sort_count)
    /\ CountOf(orig_sort_count, to_add[Len(to_add)]) = MaxValue(sort_count)

(***************************************************************************)
(* Properties of sequences of rules.                                       *)
(***************************************************************************)
NoStuffing == \A n \in DOMAIN targets : ~targets[n].stuff

\* The capacity of container i under the capacity source of the rules, in
\* units of 1/Denom.
SizeOf(i) ==
    IF targets[1].capacity_expr # None THEN geo_df[i].scaled \div ScaleFactor
    ELSE geo_df[i].units

Larger(x, y) == IF x >= y THEN x ELSE y

\* C27: across the synthesize_one calls of synthesize_from_table that use
\* stuff=False, the table after every call holds in each container at most
\* the larger of the container's capacity and its rows in the initial table.
C27_CapacityNeverExceeded ==
    (op = "synthesize_from_table" /\ pc \in {"loop", "done"} /\ NoStuffing) =>
        \A i \in DOMAIN geo_df :
            Denom * AssignedTo(new_df, geo_df[i].key)
                <= Larger(SizeOf(i), Denom * AssignedTo(df, geo_df[i].key))

\* Two rules added rows: a container is filled to its capacity by the
\* second, which leaves a new row without a container.
C27_Witness ==
    /\ op = "synthesize_from_table" /\ pc = "done" /\ err = None
    /\ NoStuffing
    /\ Len(targets) = 2
    /\ Len(step_df) > Len(df)
    /\ Len(result) > Len(step_df)
    /\ \E i \in DOMAIN geo_df :
           /\ Denom * AssignedTo(result, geo_df[i].key) = SizeOf(i)
           /\ AssignedTo(result, geo_df[i].key) > AssignedTo(step_df, geo_df[i].key)
    /\ \E k \in DOMAIN result :
           result[k].alloc = None /\ result[k].idx \notin IndexSet(step_df)

NullRows(t) == {k \in DOMAIN t : t[k].alloc = None}

\* C30: a row whose allocation column is null is in no container's
\* occupancy and does not make synthesize_one raise for a non-existent
\* container: a call on a table with such rows fails that way only when a
\* row holds a key that geo_df does not have, and otherwise what the
\* constraint subtracts from the capacities adds up to the rows that are
\* in a container.
C30_NullRowsDoNotBlock ==
    (Stepped /\ NullRows(step_df) # {}) =>
        IF AbsentKeyRows(step_df) # {}
        THEN err = NonExistentContainers
        ELSE /\ err # NonExistentContainers
             /\ Len(constraint) = Len(geo_df)
             /\ \A j \in DOMAIN constraint :
                    \E i \in DOMAIN geo_df :
                        /\ geo_df[i].key = constraint[j].key
                        /\ Capacity(i) - constraint[j].val
                               = Denom * AssignedTo(step_df, geo_df[i].key)
             /\ \A i \in DOMAIN geo_df :
                    AssignedTo(step_df, geo_df[i].key)
                        <= Len(step_df) - Cardinality(NullRows(step_df))

\* The first rule left a new row without a container, and the second rule,
\* given that table, removed a row that is in a container and kept the row
\* that is in none.
C30_Witness ==
    /\ op = "synthesize_from_table" /\ pc = "done" /\ err = None
    /\ Len(targets) = 2
    /\ \E k \in NullRows(step_df) :
           /\ step_df[k].idx \notin IndexSet(df)
           /\ step_df[k].idx \in IndexSet(result)
    /\ \E k \in DOMAIN step_df :
           /\ step_df[k].alloc # None
           /\ step_df[k].idx \notin IndexSet(result)

(***************************************************************************)
(* Properties of the scaling functions (checked under SpecScale).          *)
(***************************************************************************)
KnownMetric == metric \in {"mean", "median", "sum"}

NoClip == clip_low = NoBound /\ clip_high = NoBound

\* The whole number a value of an input column is.
WholeOf(x) == ToRat(x).n

RECURSIVE SumOfAbs(_, _)
SumOfAbs(c, n) == IF n = 0 THEN 0 ELSE SumOfAbs(c, n - 1) + Abs(WholeOf(c[n]))

RECURSIVE SumOfWhole(_, _)
SumOfWhole(c, n) == IF n = 0 THEN 0 ELSE SumOfWhole(c, n - 1) + WholeOf(c[n])

\* How much the metric of a column magnifies a relative change of its
\* values, as a fraction: the sum of the absolute values over the absolute
\* value of the sum, of the whole column for the sum and the mean and of
\* the one or two middle values for the median.  It is 1 for a column whose
\* values have one sign.
Condition(c, metric_name) ==
    IF metric_name = "median"
    THEN LET a == WholeOf(Smallest(c, (Len(c) + 1) \div 2))
             b == WholeOf(Smallest(c, Len(c) \div 2 + 1))
         IN  [n |-> Abs(a) + Abs(b), d |-> Abs(a + b)]
    ELSE [n |-> SumOfAbs(c, Len(c)), d |-> Abs(SumOfWhole(c, Len(c)))]

\* |x - y| <= 2 * (Len(c) + 3) * 2^(-Precision) * |y| * Condition
WithinRounding(x, y, c, metric_name) ==
    LET a == ToRat(x)
        b == ToRat(y)
        cond == Condition(c, metric_name)
    IN  Abs(a.n * b.d - b.n * a.d) * b.d * cond.d * Pow2(Precision)
            <= 2 * (Len(c) + 3) * Abs(b.n) * cond.n * a.d * b.d

\* A call of scale_col_to_target without clip bounds and without rounding,
\* on a column whose metric is not 0, has ended.
ScaledPlainly ==
    /\ Ended("scale_col_to_target")
    /\ KnownMetric /\ NoClip /\ ~int_result
    /\ IsFinite(MetricFunc(metric, col))
    /\ MetricFunc(metric, col) # Zero

EachTimesMultiplier ==
    /\ err = None
    /\ Len(result) = Len(col)
    /\ \A i \in DOMAIN col :
           result[i] = FMul(col[i], FDiv(target_arg, MetricFunc(metric, col)))

\* C21 as stated: for a non-empty column whose metric is not 0, without
\* clip bounds and with int_result=False, the metric of the result of
\* scale_col_to_target equals target, every value having been multiplied by
\* the one factor target / current.
C21_Original ==
    ScaledPlainly =>
        /\ EachTimesMultiplier
        /\ MetricFunc(metric, result) = target_arg

\* C21, amended: the metric of the result equals target up to the rounding
\* of the floating-point operations: the difference is at most
\* 2 * (len(col) + 3) roundings of relative size 2^(-Precision), times
\* |target|, times what the metric magnifies (1 for a column whose values
\* have one sign).
C21_ScalingWithinRounding ==
    ScaledPlainly =>
        /\ EachTimesMultiplier
        /\ IsFinite(MetricFunc(metric, result))
        /\ WithinRounding(MetricFunc(metric, result), target_arg, col, metric)

\* The mean of three positive values, not all the same, was scaled to a
\* target that the mean of the result misses by a rounding.
C21_Witness ==
    /\ ScaledPlainly /\ err = None
    /\ metric = "mean"
    /\ Len(col) = 3 /\ col[1] # col[2]
    /\ \A i \in DOMAIN col : Less(Zero, col[i])
    /\ target_arg # Zero
    /\ MetricFunc(metric, result) # target_arg
    /\ \E i \in DOMAIN col : result[i] # col[i]

\* C22: scale_col_to_target fails with an error, and returns no column,
\* whenever the metric of col is 0.
C22_ZeroAggregateRaises ==
    (Ended("scale_col_to_target") /\ KnownMetric /\ MetricFunc(metric, col) = Zero) =>
        /\ err # None
        /\ result = NoTable

ScaleToTargetsEnded == Ended("scale_to_targets") \/ Ended("targets.scale_to_targets")

\* C23: scale_to_targets fails with an error whenever targets and filters
\* have different lengths: no segment is scaled and no table is returned.
C23_LengthMismatchRaises ==
    (ScaleToTargetsEnded /\ KnownMetric /\ filters_arg # <<>>
        /\ Len(filters_arg) # Len(targets)) =>
        /\ err # None
        /\ result = NoTable

\* The positions of the rows of df that some filter of the call selects.
Selected ==
    LET fs == FiltersOrNone(filters_arg, targets)
    IN  {i \in DOMAIN df :
            \E n \in DOMAIN fs : \A c \in DOMAIN fs[n] : Holds(df[i], fs[n][c])}

\* The positions of the rows of the segments that are scaled.
Scaled ==
    LET fs == FiltersOrNone(filters_arg, targets)
    IN  {i \in DOMAIN df :
            \E n \in DOMAIN fs :
                /\ n <= Len(targets)
                /\ \A c \in DOMAIN fs[n] : Holds(df[i], fs[n][c])}

\* C24: scale_to_targets leaves alone the rows that no filter selects, for
\* every clip bounds and int_result: the table returned has the rows of df
\* under the same labels, with the same geo_id, and with the same
\* target_col in every row that no segment's filter selects.
C24_UnselectedRowsUnchanged ==
    (ScaleToTargetsEnded /\ err = None) =>
        /\ Len(result) = Len(df)
        /\ \A i \in DOMAIN df :
               /\ result[i].idx = df[i].idx
               /\ result[i].alloc = df[i].alloc
               /\ i \notin Selected => result[i].number = df[i].number

\* x <= y; a comparison with nan is false
Leq(x, y) == Less(x, y) \/ (x = y /\ x.k # "nan")

InBounds(x, lower, upper) ==
    /\ lower # NoBound => Leq(lower, x)
    /\ upper # NoBound => Leq(x, upper)

\* col value times the multiplier
TimesMultiplier(c, goal, i) == FMul(c[i], FDiv(goal, MetricFunc(metric, c)))

\* C25 as stated: every value scale_col_to_target returns, and every
\* scaled value scale_to_targets writes, lies within [clip_low, clip_high],
\* whether or not int_result is set, and a value whose scaled value is
\* inside the bounds is returned as col value times the multiplier.
C25_Original ==
    /\ (Returned("scale_col_to_target") /\ KnownMetric) =>
           \A i \in DOMAIN col :
               /\ InBounds(result[i], clip_low, clip_high)
               /\ InBounds(TimesMultiplier(col, target_arg, i), clip_low, clip_high) =>
                      result[i] = TimesMultiplier(col, target_arg, i)
    /\ (ScaleToTargetsEnded /\ err = None /\ result # df) =>
           \A i \in Scaled : InBounds(result[i].number, clip_low, clip_high)

IsWhole(x) == IsFinite(x) /\ x.e >= 0

RoundedBound(b) == IF b = NoBound THEN NoBound ELSE RoundValue(b)

\* What C25, amended, says of a value x returned for the scaled value v.
ClippedThenRounded(x, v) ==
    IF ~IsFinite(v) THEN TRUE
    ELSE IF int_result
    THEN /\ IsWhole(x)
         /\ InBounds(x, RoundedBound(clip_low), RoundedBound(clip_high))
         /\ InBounds(v, clip_low, clip_high) => x = RoundValue(v)
    ELSE /\ InBounds(x, clip_low, clip_high)
         /\ InBounds(v, clip_low, clip_high) => x = v

\* C25, amended: a value that scaling makes a finite number is returned
\* within [clip_low, clip_high] when int_result is not set; when it is set,
\* the clipped value is rounded afterwards, so what is returned is a whole
\* number within [round(clip_low), round(clip_high)], which a bound that
\* is not whole does not contain.  A value whose scaled value is inside
\* the bounds is returned as col value times the multiplier, rounded when
\* int_result is set.  The same holds of the values scale_to_targets
\* writes.
C25_ClipThenRound ==
    /\ (Returned("scale_col_to_target") /\ KnownMetric) =>
           /\ Len(result) = Len(col)
           /\ \A i \in DOMAIN col :
                  ClippedThenRounded(result[i], TimesMultiplier(col, target_arg, i))
    /\ (ScaleToTargetsEnded /\ err = None /\ result # df) =>
           \A i \in Scaled :
               IsFinite(result[i].number) =>
                   IF int_result
                   THEN /\ IsWhole(result[i].number)
                        /\ InBounds(result[i].number, RoundedBound(clip_low),
                                    RoundedBound(clip_high))
                   ELSE InBounds(result[i].number, clip_low, clip_high)

\* A value was clipped to 1.5 and then rounded to 2, above clip_high, and
\* another value, inside the bounds, was left as scaled.
C25_Witness ==
    /\ Returned("scale_col_to_target") /\ KnownMetric /\ int_result
    /\ clip_high = Fin(3, -1)
    /\ \E i \in DOMAIN col :
           /\ Less(clip_high, TimesMultiplier(col, target_arg, i))
           /\ result[i] = FromInt(2)
    /\ \E i \in DOMAIN col :
           /\ result[i] = TimesMultiplier(col, target_arg, i)
           /\ result[i] # col[i]

(***************************************************************************)
(* Properties of TableFrame (checked under SpecFrame).                     *)
(***************************************************************************)
\* C26: a TableFrame constructed without a cache argument, whose cache
\* attribute has not been reassigned, has caching enabled: after a lookup
\* through it every column of the key is in the column cache.
C26_CachingByDefault ==
    (op = "TableFrame" /\ cache_from = "default" /\ pc = "getitem") =>
        /\ cache
        /\ key_arg \subseteq cached

====
